---- MODULE Spec2Model ----
(***************************************************************************)
(* Model of the MemAlerts nginx patch scripts                              *)
(* (apps/backend/scripts/patch-nginx-in-place.py and the patch-vps-nginx-* *)
(* helpers).                                                               *)
(*                                                                         *)
(* A text is a sequence of lexemes.  Every lexeme is a string the scripts  *)
(* never look inside of except through the substring tests modelled below  *)
(* (HasLimitReq, HasExpires, ...): punctuation ("{", "}", ";", "#"),        *)
(* whitespace ("\n", one space, runs of 2, 4 and 8 spaces), keywords and   *)
(* whole directives.  Offsets are 0-based offsets into that sequence, as   *)
(* the Python offsets are into the string, so s[a:b] is Slice(s, a, b).    *)
(***************************************************************************)
EXTENDS Integers, Sequences, FiniteSets, TLC

NL == "\n"
SP == " "
I2 == "  "
I4 == "    "
I8 == "        "

IsWs(c) == c \in {NL, SP, I2, I4, I8}

Min(S) == CHOOSE m \in S : \A y \in S : m <= y
Max(S) == CHOOSE m \in S : \A y \in S : m >= y

\* Python s[a:b] for 0 <= a <= b <= len(s).
Slice(s, a, b) == SubSeq(s, a + 1, b)

\* Python s[a:].
SliceFrom(s, a) == SubSeq(s, a + 1, Len(s))

\* Python s.find(pat, from): the lowest offset >= from where pat occurs, else -1.
Find(s, pat, from) ==
  LET hits == {i \in from..(Len(s) - Len(pat)) : Slice(s, i, i + Len(pat)) = pat}
  IN IF hits = {} THEN -1 ELSE Min(hits)

\* Python s.rfind(pat): the highest offset where pat occurs, else -1.
RFind(s, pat) ==
  LET hits == {i \in 0..(Len(s) - Len(pat)) : Slice(s, i, i + Len(pat)) = pat}
  IN IF hits = {} THEN -1 ELSE Max(hits)

\* Python s.startswith(pat) and s.endswith(pat).
StartsWith(s, pat) == Len(s) >= Len(pat) /\ Slice(s, 0, Len(pat)) = pat
EndsWith(s, pat) == Len(s) >= Len(pat) /\ Slice(s, Len(s) - Len(pat), Len(s)) = pat

(***************************************************************************)
(* Regular expressions.  A pattern is a sequence of literal lexemes and    *)
(* the two whitespace elements WsPlus, one or more whitespace lexemes, and *)
(* WsStar, zero or more.  MatchAt is re.match of the pattern at offset i:  *)
(* the offset after the match, or -1.                                      *)
(***************************************************************************)
WsPlus == "\\s+"
WsStar == "\\s*"

RECURSIVE SkipWs(_, _)
SkipWs(s, i) == IF i < Len(s) /\ IsWs(s[i + 1]) THEN SkipWs(s, i + 1) ELSE i

RECURSIVE MatchFrom(_, _, _, _)
MatchFrom(s, i, pat, k) ==
  IF k > Len(pat) THEN i
  ELSE IF pat[k] = WsStar THEN MatchFrom(s, SkipWs(s, i), pat, k + 1)
  ELSE IF pat[k] = WsPlus THEN
         IF SkipWs(s, i) = i THEN -1 ELSE MatchFrom(s, SkipWs(s, i), pat, k + 1)
  ELSE IF i < Len(s) /\ s[i + 1] = pat[k] THEN MatchFrom(s, i + 1, pat, k + 1)
  ELSE -1

MatchAt(s, i, pat) == MatchFrom(s, i, pat, 1)

\* The offsets where the pattern matches unanchored (re.search without ^).
Matches(s, pat) == {p \in 0..(Len(s) - 1) : s[p + 1] = pat[1] /\ MatchAt(s, p, pat) # -1}

\* ^ under re.MULTILINE: the start of the text or right after a newline.
AtLineStart(s, q) == q = 0 \/ s[q] = NL

RECURSIVE BackWs(_, _)
BackWs(s, i) == IF i > 0 /\ IsWs(s[i]) THEN BackWs(s, i - 1) ELSE i

\* `^\s*` before offset p: the line starts q <= p with only whitespace in s[q:p].
LineStarts(s, p) == {q \in BackWs(s, p)..p : AtLineStart(s, q)}

\* The offsets p of the first literal of the matches of `^\s*` + pat (re.MULTILINE).
AnchoredMatches(s, pat) == {p \in Matches(s, pat) : LineStarts(s, p) # {}}

\* m.start() of the match of `^\s*` + pat whose first literal is at p: the leftmost.
MatchStart(s, p) == Min(LineStarts(s, p))

\* re.search(`^\s*` + pat, s, re.MULTILINE) finds a match.
Search(s, pat) == AnchoredMatches(s, pat) # {}

(***************************************************************************)
(* Brace scanning: the loop `while j < len(s)` that adds one at "{",       *)
(* subtracts one at "}" and stops at the first "}" that brings the depth   *)
(* to 0.  BraceEnd is the offset after that "}" (j + 1), or -1 when the    *)
(* text ends first.                                                        *)
(***************************************************************************)
BraceEnd(s, j0, depth0) ==
  LET opens  == {j \in j0..(Len(s) - 1) : s[j + 1] = "{"}
      closes == {j \in j0..(Len(s) - 1) : s[j + 1] = "}"}
      zero   == {j \in closes :
                   depth0 + Cardinality({o \in opens : o < j})
                          - Cardinality({c \in closes : c <= j}) = 0}
  IN IF zero = {} THEN -1 ELSE Min(zero) + 1

ServerHeader == <<"server", WsStar, "{">>

\* _server_blocks: the loop body from offset i; the list of (start, end).
RECURSIVE ServerBlocksFrom(_, _)
ServerBlocksFrom(text, i) ==
  LET ms == {p \in Matches(text, ServerHeader) : p >= i}
  IN IF i >= Len(text) \/ ms = {} THEN <<>>
     ELSE LET start == Min(ms)
              j     == MatchAt(text, start, ServerHeader)
              end   == BraceEnd(text, j, 0)
          IN IF end = -1 THEN <<>>
             ELSE <<<<start, end>>>> \o ServerBlocksFrom(text, end)

_server_blocks(text) == ServerBlocksFrom(text, 0)

ServerNameRe == <<"server_name", WsPlus>>

\* part.startswith("$"): the lexemes of the model that are nginx variables.
IsVariable(tok) == tok \in {"$hostname", "$host"}

\* _server_names: the names of the first `server_name ...;` line, variables dropped.
_server_names(server_block) ==
  LET ms == AnchoredMatches(server_block, ServerNameRe)
  IN IF ms = {} THEN {}
     ELSE LET from == MatchAt(server_block, Min(ms), ServerNameRe)
              semi == Find(server_block, <<";">>, from)
          IN IF semi = -1 \/ semi = from THEN {}
             ELSE {tok \in {server_block[k + 1] : k \in from..(semi - 1)} :
                     ~IsWs(tok) /\ ~IsVariable(tok)}


(***************************************************************************)
(* patch-nginx-in-place.py: the literal texts the rules insert.            *)
(***************************************************************************)
MARKER_uploads   == "# memalerts-managed: uploads cache"
MARKER_internal  == "# memalerts-managed: block internal relay"
MARKER_api       == "# memalerts-managed: api proxy"
MARKER_me_clone  == "# memalerts-managed: api proxy (/me/*)"
MARKER_socket    == "# memalerts-managed: socket.io proxy"
MARKER_compat    == "# memalerts-managed: api compat (/api/* -> /*)"
MARKER_ratelimit == "# memalerts-managed: rate-limit"

ExpiresLine      == "expires 30d;"
CacheControlLine == "add_header Cache-Control \"public, max-age=2592000, immutable\" always;"
AcceptRangesLine == "add_header Accept-Ranges \"bytes\" always;"
TryFilesLine     == "try_files $uri =404;"

\* The substring tests of _ensure_uploads_location and _ensure_location_rate_limit,
\* on the lexemes of the model that contain the substring.
HasExpires(tok)      == tok \in {ExpiresLine, "expires 7d;"}
HasCacheControl(tok) == tok \in {CacheControlLine}
HasAcceptRanges(tok) == tok \in {AcceptRangesLine}
HasTryFiles(tok)     == tok \in {TryFilesLine, "try_files $uri /index.html;"}
HasLimitReq(tok)     == tok \in {"limit_req zone=memalerts_api_per_ip burst=30 nodelay;",
                                 "limit_req zone=memalerts_auth_per_ip burst=10 nodelay;",
                                 "limit_req zone=memalerts_api_per_ip burst=60 nodelay;",
                                 "limit_req zone=memalerts_api_per_ip burst=80 nodelay;",
                                 "limit_req zone=one burst=5;"}

Contains(s, Has(_)) == \E k \in 1..Len(s) : Has(s[k])

\* alias_dir: uploads_alias_dir with a trailing "/" added when it has none.
AliasLine(uploads_alias_dir) ==
  CASE uploads_alias_dir = "/opt/memalerts-backend/uploads"  -> "alias /opt/memalerts-backend/uploads/;"
    [] uploads_alias_dir = "/opt/memalerts-backend/uploads/" -> "alias /opt/memalerts-backend/uploads/;"
    [] uploads_alias_dir = "/opt/memalerts-backend-beta/uploads" -> "alias /opt/memalerts-backend-beta/uploads/;"

\* f"        proxy_pass {upstream};" with upstream = f"http://127.0.0.1:{port}".
ProxyPassLine(upstream_port) ==
  CASE upstream_port = 3001 -> "proxy_pass http://127.0.0.1:3001;"
    [] upstream_port = 3002 -> "proxy_pass http://127.0.0.1:3002;"

\* f"        proxy_pass {upstream}/;" of the /api/ compat block.
ProxyPassSlashLine(upstream_port) ==
  CASE upstream_port = 3001 -> "proxy_pass http://127.0.0.1:3001/;"
    [] upstream_port = 3002 -> "proxy_pass http://127.0.0.1:3002/;"

_proxy_common_headers ==
  << I8, "proxy_set_header Host $host;", NL,
     I8, "proxy_set_header X-Real-IP $remote_addr;", NL,
     I8, "proxy_set_header X-Forwarded-For $proxy_add_x_forwarded_for;", NL,
     I8, "proxy_set_header X-Forwarded-Proto $scheme;", NL >>

\* "    <marker>\n    location <header> {\n" + body + "    }\n"
LocationBlock(marker, header, body) ==
  <<I4, marker, NL, I4, "location", SP>> \o header \o <<SP, "{", NL>> \o body \o <<I4, "}", NL>>

ProxyBlock(marker, header, upstream_port) ==
  LocationBlock(marker, header,
                <<I8, ProxyPassLine(upstream_port), NL>> \o _proxy_common_headers)

\* `^\s*location\s+` + middle + `\s*\{`
LocationRe(middle) == <<"location", WsPlus>> \o middle \o <<WsStar, "{">>

CatchAllNeedle == <<NL, I4, "location", SP, "/", SP, "{">>
FinalBraceNeedle == <<NL, "}">>

\* insert_point of _ensure_uploads_location and _ensure_location_if_missing:
\* before "\n    location / {", else before the last "\n}", else -1.
InsertPoint(server_block) ==
  IF Find(server_block, CatchAllNeedle, 0) # -1
  THEN Find(server_block, CatchAllNeedle, 0)
  ELSE RFind(server_block, FinalBraceNeedle)

\* InsertAt that writes ins over the lexeme at the insertion point.
InsertAt_overwriting(s, at, ins) == Slice(s, 0, at) \o ins \o SliceFrom(s, at + 1)

\* s[:at] + ins + s[at:]
InsertAt(s, at, ins) == Slice(s, 0, at) \o ins \o SliceFrom(s, at)

UploadsRe == LocationRe(<<"/uploads/">>)

\* One `if "<x>" not in loc_block: patched = patched[:-1] + line + "    }\n"`.
AppendIfMissing(loc_block, patched, Has(_), line) ==
  IF Contains(loc_block, Has)
  THEN patched
  ELSE Slice(patched, 0, Len(patched) - 1) \o <<I8, line, NL, I4, "}", NL>>

\* _ensure_uploads_location: <<server_block, changed>>
_ensure_uploads_location(server_block, uploads_alias_dir) ==
  LET ms == AnchoredMatches(server_block, UploadsRe)
  IN IF ms = {}
     THEN LET location_uploads ==
                <<NL>> \o LocationBlock(MARKER_uploads, <<"/uploads/">>,
                   << I8, AliasLine(uploads_alias_dir), NL,
                      I8, ExpiresLine, NL,
                      I8, CacheControlLine, NL,
                      I8, AcceptRangesLine, NL,
                      I8, TryFilesLine, NL >>)
              insert_point == InsertPoint(server_block)
          IN IF insert_point = -1 THEN <<server_block, FALSE>>
             ELSE <<InsertAt(server_block, insert_point, location_uploads), TRUE>>
     ELSE LET start      == MatchStart(server_block, Min(ms))
              brace_open == Find(server_block, <<"{">>, start)
              loc_end    == IF brace_open = -1 THEN -1
                            ELSE BraceEnd(server_block, brace_open + 1, 1)
          IN IF loc_end = -1 THEN <<server_block, FALSE>>
             ELSE LET loc_block == Slice(server_block, start, loc_end)
                      p1 == AppendIfMissing(loc_block, loc_block, HasExpires, ExpiresLine)
                      p2 == AppendIfMissing(loc_block, p1, HasCacheControl, CacheControlLine)
                      p3 == AppendIfMissing(loc_block, p2, HasAcceptRanges, AcceptRangesLine)
                      p4 == AppendIfMissing(loc_block, p3, HasTryFiles, TryFilesLine)
                      changed == ~Contains(loc_block, HasExpires)
                                 \/ ~Contains(loc_block, HasCacheControl)
                                 \/ ~Contains(loc_block, HasAcceptRanges)
                                 \/ ~Contains(loc_block, HasTryFiles)
                  IN IF changed
                     THEN <<Slice(server_block, 0, start) \o p4 \o SliceFrom(server_block, loc_end), TRUE>>
                     ELSE <<server_block, FALSE>>

\* _ensure_location_if_missing that reports a change also when it found no
\* place to insert the block.
_ensure_location_if_missing_flagged(server_block, location_header_regex, location_block) ==
  IF Search(server_block, location_header_regex)
  THEN <<server_block, FALSE>>
  ELSE LET insert_point == InsertPoint(server_block)
           b1 == IF StartsWith(location_block, <<NL>>) THEN location_block
                 ELSE <<NL>> \o location_block
           block == IF EndsWith(b1, <<NL>>) THEN b1 ELSE b1 \o <<NL>>
       IN IF insert_point = -1 THEN <<server_block, TRUE>>
          ELSE <<InsertAt(server_block, insert_point, block), TRUE>>

\* _ensure_location_if_missing: <<server_block, changed>>
_ensure_location_if_missing(server_block, location_header_regex, location_block) ==
  IF Search(server_block, location_header_regex)
  THEN <<server_block, FALSE>>
  ELSE LET insert_point == InsertPoint(server_block)
           b1 == IF StartsWith(location_block, <<NL>>) THEN location_block
                 ELSE <<NL>> \o location_block
           block == IF EndsWith(b1, <<NL>>) THEN b1 ELSE b1 \o <<NL>>
       IN IF insert_point = -1 THEN <<server_block, FALSE>>
          ELSE <<InsertAt(server_block, insert_point, block), TRUE>>

\* Accessors of the <<server_block, changed>> pairs the rules return.
TextOf(r) == r[1]
ChangedOf(r) == r[2]

\* _extract_braced_block / extract_braced_block: <<block, end>>, <<"", -1>> as <<<<>>, -1>>.
extract_braced_block(s, start_idx) ==
  LET brace_open == Find(s, <<"{">>, start_idx)
      end == IF brace_open = -1 THEN -1 ELSE BraceEnd(s, brace_open + 1, 1)
  IN IF end = -1 THEN <<<<>>, -1>> ELSE <<Slice(s, start_idx, end), end>>

\* re.sub(`^(\s*)` + pat, `\1` + repl, s, flags=re.MULTILINE) restricted to the
\* matches whose first literal is at an offset of ps: applied from the last match
\* to the first; the group \1 (the whitespace before the first literal) is kept.
RECURSIVE SubAt(_, _, _, _)
SubAt(s, pat, repl, ps) ==
  IF ps = {} THEN s
  ELSE LET p == Max(ps)
       IN SubAt(Slice(s, 0, p) \o repl \o SliceFrom(s, MatchAt(s, p, pat)),
                pat, repl, ps \ {p})

ReSubAll(s, pat, repl) == SubAt(s, pat, repl, AnchoredMatches(s, pat))

MePrefixRe == LocationRe(<<"^~", WsPlus, "/me/">>)
MeExactCloneRe == <<"location", WsStar, "=", WsStar, "/me", WsStar, "{">>
MePrefixHeader == <<"location", SP, "^~", SP, "/me/", SP, "{">>

\* CloneMeExact without its test for an existing `location ^~ /me/`.
CloneMeExact_unguarded(server_block) ==
  LET ms == AnchoredMatches(server_block, MeExactCloneRe)
  IN IF ms = {} THEN <<server_block, FALSE>>
     ELSE LET start  == MatchStart(server_block, Min(ms))
              indent == Slice(server_block, start, Min(ms))
              be     == extract_braced_block(server_block, start)
          IN IF be[1] = <<>> \/ be[2] = -1 THEN <<server_block, FALSE>>
             ELSE LET cloned == ReSubAll(be[1], MeExactCloneRe, MePrefixHeader)
                      insertion == <<NL>> \o indent \o <<MARKER_me_clone, NL>>
                                        \o cloned \o <<NL>>
                  IN <<InsertAt(server_block, be[2], insertion), TRUE>>

\* Lines 405-425 of _ensure_memalerts_api_proxy_locations: clone `location = /me`
\* into `location ^~ /me/` right after it when no `location ^~ /me/` exists.
CloneMeExact(server_block) ==
  IF Search(server_block, MePrefixRe) THEN <<server_block, FALSE>>
  ELSE LET ms == AnchoredMatches(server_block, MeExactCloneRe)
       IN IF ms = {} THEN <<server_block, FALSE>>
          ELSE LET start  == MatchStart(server_block, Min(ms))
                   indent == Slice(server_block, start, Min(ms))
                   be     == extract_braced_block(server_block, start)
                   block  == be[1]
                   end    == be[2]
               IN IF block = <<>> \/ end = -1 THEN <<server_block, FALSE>>
                  ELSE LET cloned == ReSubAll(block, MeExactCloneRe, MePrefixHeader)
                           insertion == <<NL>> \o indent \o <<MARKER_me_clone, NL>>
                                             \o cloned \o <<NL>>
                       IN <<InsertAt(server_block, end, insertion), TRUE>>

\* The ten backend namespaces, with f"/{prefix}/" and f"/{prefix}".
Prefixes == <<"auth", "webhooks", "public", "submissions", "channels",
              "wallet", "memes", "streamer", "owner", "moderation">>

PrefixDir(prefix) ==
  CASE prefix = "auth" -> "/auth/"
    [] prefix = "webhooks" -> "/webhooks/"
    [] prefix = "public" -> "/public/"
    [] prefix = "submissions" -> "/submissions/"
    [] prefix = "channels" -> "/channels/"
    [] prefix = "wallet" -> "/wallet/"
    [] prefix = "memes" -> "/memes/"
    [] prefix = "streamer" -> "/streamer/"
    [] prefix = "owner" -> "/owner/"
    [] prefix = "moderation" -> "/moderation/"

PrefixExact(prefix) ==
  CASE prefix = "wallet" -> "/wallet"
    [] prefix = "memes" -> "/memes"

\* The rules of the model: what one call made by patch_nginx_site_file or by
\* _ensure_memalerts_api_proxy_locations does to the server block.
EnsureRule(location_header_regex, location_block) ==
  [kind |-> "ensure", regex |-> location_header_regex, block |-> location_block]

CloneRule == [kind |-> "clone"]

UploadsRule(uploads_alias_dir) == [kind |-> "uploads", alias |-> uploads_alias_dir]

RateLimitRule(location_prefix_regex, zone, burst) ==
  [kind |-> "rate", regex |-> location_prefix_regex, zone |-> zone, burst |-> burst]

\* `location = <path>` and `location ^~ <path>` ensured with the minimal proxy block.
EnsureExact(path, upstream_port) ==
  EnsureRule(LocationRe(<<"=", WsStar, path>>),
             ProxyBlock(MARKER_api, <<"=", SP, path>>, upstream_port))

EnsurePrefix(path, upstream_port) ==
  EnsureRule(LocationRe(<<"^~", WsPlus, path>>),
             ProxyBlock(MARKER_api, <<"^~", SP, path>>, upstream_port))

EnsureInternal ==
  EnsureRule(LocationRe(<<"^~", WsPlus, "/internal/">>),
             LocationBlock(MARKER_internal, <<"^~", SP, "/internal/">>,
                           <<I8, "return 404;", NL>>))

EnsureSocketIo(upstream_port) ==
  EnsureRule(LocationRe(<<"/socket.io/">>),
             LocationBlock(MARKER_socket, <<"/socket.io/">>,
                 <<I8, ProxyPassLine(upstream_port), NL>> \o _proxy_common_headers \o
                 << I8, "proxy_http_version 1.1;", NL,
                    I8, "proxy_set_header Upgrade $http_upgrade;", NL,
                    I8, "proxy_set_header Connection \"upgrade\";", NL,
                    I8, "proxy_read_timeout 3600s;", NL,
                    I8, "proxy_send_timeout 3600s;", NL >>))

EnsureApiCompat(upstream_port) ==
  EnsureRule(LocationRe(<<"^~", WsPlus, "/api/">>),
             LocationBlock(MARKER_compat, <<"^~", SP, "/api/">>,
                 <<I8, ProxyPassSlashLine(upstream_port), NL>> \o _proxy_common_headers))

\* The calls of `for prefix in (...)`, for the prefixes from the k-th on.
RECURSIVE PrefixRulesFrom(_, _)
PrefixRulesFrom(upstream_port, k) ==
  IF k > Len(Prefixes) THEN <<>>
  ELSE LET prefix == Prefixes[k]
       IN (IF prefix \in {"wallet", "memes"}
           THEN <<EnsureExact(PrefixExact(prefix), upstream_port)>> ELSE <<>>)
          \o <<EnsurePrefix(PrefixDir(prefix), upstream_port)>>
          \o PrefixRulesFrom(upstream_port, k + 1)

\* _ensure_memalerts_api_proxy_locations: the calls it makes, in order; each
\* works on the text the one before returned, and changed is their disjunction.
ApiRules(upstream_port) ==
  << EnsureInternal,
     EnsureExact("/health", upstream_port),
     CloneRule,
     EnsureExact("/me", upstream_port),
     EnsurePrefix("/me/", upstream_port) >>
  \o PrefixRulesFrom(upstream_port, 1)
  \o << EnsurePrefix("/overlay/credits/", upstream_port),
        EnsureSocketIo(upstream_port),
        EnsureApiCompat(upstream_port) >>

\* f"limit_req zone={zone} burst={burst} nodelay;"
LimitReqLine(zone, burst) ==
  CASE zone = "memalerts_api_per_ip" /\ burst = 30 -> "limit_req zone=memalerts_api_per_ip burst=30 nodelay;"
    [] zone = "memalerts_auth_per_ip" /\ burst = 10 -> "limit_req zone=memalerts_auth_per_ip burst=10 nodelay;"
    [] zone = "memalerts_api_per_ip" /\ burst = 60 -> "limit_req zone=memalerts_api_per_ip burst=60 nodelay;"
    [] zone = "memalerts_api_per_ip" /\ burst = 80 -> "limit_req zone=memalerts_api_per_ip burst=80 nodelay;"

\* The matches of `for m in list(loc_header_re.finditer(server_block))` as the
\* ascending sequence of m.start(1), taken on the text the call received.
RECURSIVE SortedSeq(_)
SortedSeq(S) == IF S = {} THEN <<>> ELSE <<Min(S)>> \o SortedSeq(S \ {Min(S)})

HeaderStarts(server_block, pat) ==
  SortedSeq({MatchStart(server_block, p) : p \in AnchoredMatches(server_block, pat)})

\* RateLimitOne without its test for an existing limit_req.
RateLimitOne_unchecked(server_block, start, zone, burst) ==
  LET brace_open == Find(server_block, <<"{">>, start)
      loc_end == IF brace_open = -1 THEN -1 ELSE BraceEnd(server_block, brace_open + 1, 1)
  IN IF loc_end = -1 THEN <<server_block, FALSE>>
     ELSE LET insertion == <<I8, MARKER_ratelimit, NL, I8, LimitReqLine(zone, burst), NL>>
              brace_line_end == Find(server_block, <<NL>>, brace_open)
          IN IF brace_line_end = -1 THEN <<server_block, FALSE>>
             ELSE <<InsertAt(server_block, brace_line_end + 1, insertion), TRUE>>

\* One iteration of the loop of _ensure_location_rate_limit, for the match that
\* started at offset start.
RateLimitOne(server_block, start, zone, burst) ==
  LET brace_open == Find(server_block, <<"{">>, start)
      loc_end == IF brace_open = -1 THEN -1 ELSE BraceEnd(server_block, brace_open + 1, 1)
  IN IF loc_end = -1 THEN <<server_block, FALSE>>
     ELSE IF Contains(Slice(server_block, start, loc_end), HasLimitReq)
     THEN <<server_block, FALSE>>
     ELSE LET insertion == <<I8, MARKER_ratelimit, NL, I8, LimitReqLine(zone, burst), NL>>
              brace_line_end == Find(server_block, <<NL>>, brace_open)
          IN IF brace_line_end = -1 THEN <<server_block, FALSE>>
             ELSE <<InsertAt(server_block, brace_line_end + 1, insertion), TRUE>>

\* The number of characters of the lexemes s[lo..hi].
RECURSIVE CharLen(_, _, _)
CharLen(s, lo, hi) ==
  IF lo > hi THEN 0
  ELSE IF lo = hi THEN Len(s[lo])
  ELSE CharLen(s, lo, (lo + hi) \div 2) + CharLen(s, ((lo + hi) \div 2) + 1, hi)

\* `start = m.start(1)` of a match taken on the text orig, used as an offset
\* into the text cur: the same count of characters from the start of the
\* text, which in cur is the offset of the first lexeme that begins at or
\* after that character.
StartIn(orig, cur, start) ==
  IF cur = orig THEN start
  ELSE Min({i \in 0..Len(cur) : CharLen(cur, 1, i) >= CharLen(orig, 1, start)})

\* The loop of _ensure_location_rate_limit over the matches found on the text
\* the call received (orig); the text grows while the offsets stay.
RECURSIVE RateLimitLoop(_, _, _, _, _, _, _)
RateLimitLoop(orig, server_block, changed, starts, k, zone, burst) ==
  IF k > Len(starts) THEN <<server_block, changed>>
  ELSE LET r == RateLimitOne(server_block, StartIn(orig, server_block, starts[k]), zone, burst)
       IN RateLimitLoop(orig, TextOf(r), changed \/ ChangedOf(r), starts, k + 1, zone, burst)

\* _ensure_location_rate_limit: <<server_block, changed>>
_ensure_location_rate_limit(server_block, location_prefix_regex, zone, burst) ==
  RateLimitLoop(server_block, server_block, FALSE,
                HeaderStarts(server_block, LocationRe(location_prefix_regex)),
                1, zone, burst)

(***************************************************************************)
(* The parameters main() passes to patch_nginx_site_file for               *)
(* --prod-domain twitchmemes.ru --beta-domain beta.twitchmemes.ru          *)
(* --prod-backend-dir /opt/memalerts-backend (no --beta-backend-dir).      *)
(***************************************************************************)
ProdDomain == "twitchmemes.ru"
WwwDomain  == "www.twitchmemes.ru"
BetaDomain == "beta.twitchmemes.ru"

match_domains == {ProdDomain, WwwDomain, BetaDomain}

\* sorted(matched): the domains in string order.
DomainsSorted == <<BetaDomain, ProdDomain, WwwDomain>>

uploads_alias_by_domain ==
  [d \in {ProdDomain, WwwDomain} |-> "/opt/memalerts-backend/uploads"]

backend_port_by_domain ==
  [d \in match_domains |-> IF d = BetaDomain THEN 3002 ELSE 3001]

DefaultUpstreamPort == 3001

\* `for d in sorted(matched): if d in mapping: ...; break`: the first mapped domain.
FirstMapped(matched, mapping) ==
  LET ks == {k \in 1..Len(DomainsSorted) :
               DomainsSorted[k] \in matched /\ DomainsSorted[k] \in DOMAIN mapping}
  IN IF ks = {} THEN "" ELSE DomainsSorted[Min(ks)]

\* The rule sequence of patch_nginx_site_file for one matched server block
\* (lines 604-654): the uploads rule when an alias is mapped, the API proxy
\* rules, the four rate limits.
BlockRules(matched) ==
  LET ud == FirstMapped(matched, uploads_alias_by_domain)
      pd == FirstMapped(matched, backend_port_by_domain)
      upstream_port == IF pd = "" THEN DefaultUpstreamPort ELSE backend_port_by_domain[pd]
  IN (IF ud = "" THEN <<>> ELSE <<UploadsRule(uploads_alias_by_domain[ud])>>)
     \o ApiRules(upstream_port)
     \o << RateLimitRule(<<"=", WsStar, "/me">>, "memalerts_api_per_ip", 30),
           RateLimitRule(<<"^~", WsPlus, "/auth/">>, "memalerts_auth_per_ip", 10),
           RateLimitRule(<<"/socket.io/">>, "memalerts_api_per_ip", 60),
           RateLimitRule(<<"/">>, "memalerts_api_per_ip", 80) >>

\* One call of the sequence: <<server_block, changed>>.
ApplyRule(server_block, rule) ==
  CASE rule.kind = "uploads" -> _ensure_uploads_location(server_block, rule.alias)
    [] rule.kind = "ensure" ->
         _ensure_location_if_missing(server_block, rule.regex, rule.block)
    [] rule.kind = "clone" -> CloneMeExact(server_block)
    [] rule.kind = "rate" ->
         _ensure_location_rate_limit(server_block, rule.regex, rule.zone, rule.burst)

\* names & match_domains of the span (start, end) of new_text (lines 598-600).
MatchedOf(new_text, span) ==
  _server_names(Slice(new_text, span[1], span[2])) \cap match_domains

\* Splice that puts the patched block at the front of the file.
Splice_in_front(new_text, span, patched_block) ==
  patched_block \o Slice(new_text, 0, span[1]) \o SliceFrom(new_text, span[2])

\* new_text[:start] + patched + new_text[end:] (line 657).
Splice(new_text, span, patched_block) ==
  Slice(new_text, 0, span[1]) \o patched_block \o SliceFrom(new_text, span[2])

(***************************************************************************)
(* patch-vps-nginx-me-proxy.py, patch-vps-nginx-api-after-me-marker.py and *)
(* patch-vps-nginx-api-compat-beta.py: what each main() makes of the text  *)
(* it read.  A main() returns <<exit, text>>: exit is "error" when it      *)
(* raises SystemExit, "noop" when it prints NOOP, "patched" when it goes   *)
(* on to the backup and the write of text.                                 *)
(***************************************************************************)
ME_MARKER  == "# memalerts-managed: proxy /me/* (fix SPA HTML)"
API_MARKER == "# memalerts-managed: compat /api/* -> /*"

ExitOf(r) == r[1]
ResultOf(r) == r[2]

InternalPrefixRe == LocationRe(<<"^~", WsPlus, "/internal/">>)
ApiPrefixRe == LocationRe(<<"^~", WsPlus, "/api/">>)
ApiPrefixHeader == <<"location", SP, "^~", SP, "/api/", SP, "{">>

\* `proxy_pass\s+http://localhost:3002\s*;` and what re.sub puts in its place.
ProxyPassRe == <<"proxy_pass", WsPlus, "http://localhost:3002", WsStar, ";">>
ProxyPassStrip == <<"proxy_pass", SP, "http://localhost:3002/", ";">>

\* re.sub(pat, repl, s) for a pattern without `^`: every match is replaced,
\* wherever on its line it stands.
ReSubPlain(s, pat, repl) == SubAt(s, pat, repl, Matches(s, pat))

\* find_block_ends_for_location_me, for the matches from the n-th on: the
\* (start, end, indent) of each `location = /me` block whose braces close.
RECURSIVE MeBlockEndsFrom(_, _, _)
MeBlockEndsFrom(text, ps, n) ==
  IF n > Len(ps) THEN <<>>
  ELSE LET start == MatchStart(text, ps[n])
           be    == extract_braced_block(text, start)
       IN (IF be[1] = <<>> \/ be[2] = -1 THEN <<>>
           ELSE << <<start, be[2], Slice(text, start, ps[n])>> >>)
          \o MeBlockEndsFrom(text, ps, n + 1)

find_block_ends_for_location_me(text) ==
  MeBlockEndsFrom(text, SortedSeq(AnchoredMatches(text, MeExactCloneRe)), 1)

\* Lines 96-108 of main: `for start, end, indent in reversed(blocks)`, from the
\* n-th block down to the first.
RECURSIVE CloneAfterEach(_, _, _)
CloneAfterEach(text, blocks, n) ==
  IF n = 0 THEN text
  ELSE LET be == extract_braced_block(text, blocks[n][1])
       IN IF be[1] = <<>> THEN CloneAfterEach(text, blocks, n - 1)
          ELSE LET cloned == ReSubAll(be[1], MeExactCloneRe, MePrefixHeader)
                   insertion == <<NL>> \o blocks[n][3] \o <<ME_MARKER, NL>>
                                     \o cloned \o <<NL>>
               IN CloneAfterEach(InsertAt(text, blocks[n][2], insertion), blocks, n - 1)

\* Lines 89-108 of main, step 1: <<exit, text>>.  With no `location ^~ /me/`
\* anywhere in the file, clone every `location = /me` block right after it.
MeProxyClone(text) ==
  IF Search(text, MePrefixRe) THEN <<"noop", text>>
  ELSE LET blocks == find_block_ends_for_location_me(text)
       IN IF blocks = <<>> THEN <<"error", text>>
          ELSE <<"patched", CloneAfterEach(text, blocks, Len(blocks))>>

\* ensure_block_before_location_slash: <<server_block, changed>>
ensure_block_before_location_slash(server_block, block) ==
  LET insert_point == InsertPoint(server_block)
      b1 == IF StartsWith(block, <<NL>>) THEN block ELSE <<NL>> \o block
      b2 == IF EndsWith(b1, <<NL>>) THEN b1 ELSE b1 \o <<NL>>
  IN IF insert_point = -1 THEN <<server_block, FALSE>>
     ELSE <<InsertAt(server_block, insert_point, b2), TRUE>>

\* Lines 154-157 and 164-177: the blocks of step 2, at the indentation found.
InternalBlockAt(indent) ==
  indent \o <<MARKER_internal, NL>>
  \o indent \o <<"location", SP, "^~", SP, "/internal/", SP, "{", NL>>
  \o indent \o <<I4, "return 404;", NL>>
  \o indent \o <<"}", NL>>

ApiCompatBlockAt(indent) ==
  indent \o <<API_MARKER, NL>>
  \o indent \o <<"location", SP, "^~", SP, "/api/", SP, "{", NL>>
  \o indent \o <<I4, "proxy_pass", SP, "http://localhost:3002/", ";", NL>>
  \o indent \o <<I4, "proxy_http_version 1.1;", NL>>
  \o indent \o <<I4, "proxy_set_header Host $host;", NL>>
  \o indent \o <<I4, "proxy_set_header X-Real-IP $remote_addr;", NL>>
  \o indent \o <<I4, "proxy_set_header X-Forwarded-For $proxy_add_x_forwarded_for;", NL>>
  \o indent \o <<I4, "proxy_set_header X-Forwarded-Proto $scheme;", NL>>
  \o indent \o <<I4, "proxy_set_header CF-Connecting-IP $http_cf_connecting_ip;", NL>>
  \o indent \o <<I4, "proxy_set_header Cookie $http_cookie;", NL>>
  \o indent \o <<I4, "proxy_cache_bypass $http_upgrade;", NL>>
  \o indent \o <<I4, "proxy_pass_header Set-Cookie;", NL>>
  \o indent \o <<I4, "proxy_cookie_path / /;", NL>>
  \o indent \o <<"}", NL>>

\* `"server_name beta.twitchmemes.ru;" in sb`
BetaNameNeedle == <<"server_name", SP, BetaDomain, ";">>
IsBetaBlock(sb) == Find(sb, BetaNameNeedle, 0) # -1

\* Lines 151-159: the /internal/ block of step 2 on one beta span.
EnsureInternalBefore(sb, indent) ==
  IF Search(sb, InternalPrefixRe) THEN <<sb, FALSE>>
  ELSE ensure_block_before_location_slash(sb, InternalBlockAt(indent))

\* Lines 161-179: the /api/ block of step 2 on one beta span.
EnsureApiBefore(sb, indent) ==
  IF Search(sb, ApiPrefixRe) THEN <<sb, FALSE>>
  ELSE ensure_block_before_location_slash(sb, ApiCompatBlockAt(indent))

\* Lines 145-179: step 2 on one beta span, <<sb, inserted_any>>.
MeProxyBetaBlock(sb) ==
  LET ms == AnchoredMatches(sb, MeExactCloneRe)
      indent == IF ms = {} THEN <<I4>>
                ELSE Slice(sb, MatchStart(sb, Min(ms)), Min(ms))
      r1 == EnsureInternalBefore(sb, indent)
      r2 == EnsureApiBefore(TextOf(r1), indent)
  IN <<TextOf(r2), ChangedOf(r1) \/ ChangedOf(r2)>>

\* Lines 140-183: `for start, end in reversed(_server_blocks(text))`, from the
\* n-th span down to the first: <<text, changed_any>>.
RECURSIVE MeProxyBetaLoop(_, _, _)
MeProxyBetaLoop(text, spans, n) ==
  IF n = 0 THEN <<text, FALSE>>
  ELSE LET sb == Slice(text, spans[n][1], spans[n][2])
       IN IF ~IsBetaBlock(sb) THEN MeProxyBetaLoop(text, spans, n - 1)
          ELSE LET r    == MeProxyBetaBlock(sb)
                   t2   == IF ChangedOf(r) THEN Splice(text, spans[n], TextOf(r)) ELSE text
                   rest == MeProxyBetaLoop(t2, spans, n - 1)
               IN <<TextOf(rest), ChangedOf(r) \/ ChangedOf(rest)>>

\* patch-vps-nginx-me-proxy.py, main up to line 187: <<exit, text>>.
me_proxy_main(text) ==
  LET s1 == MeProxyClone(text)
  IN IF ExitOf(s1) = "error" THEN <<"error", text>>
     ELSE LET spans == _server_blocks(ResultOf(s1))
              s2    == MeProxyBetaLoop(ResultOf(s1), spans, Len(spans))
          IN IF ExitOf(s1) = "patched" \/ ChangedOf(s2)
             THEN <<"patched", TextOf(s2)>>
             ELSE <<"noop", text>>

\* re.sub(`^(\s*)` + pat, `\1` + marker_line + `\1` + header, block, count=1):
\* the first header of the block gets the new header, and a marker line
\* before it at the same indentation when marker_line is not empty.
SubFirstHeader(block, p, header_end, marker_line, header) ==
  LET ind == Slice(block, MatchStart(block, p), p)
  IN Slice(block, 0, p)
     \o (IF marker_line = <<>> THEN <<>> ELSE marker_line \o ind)
     \o header \o SliceFrom(block, header_end)

\* patch-vps-nginx-api-after-me-marker.py, main up to line 78: <<exit, text>>.
after_me_marker_main(text) ==
  LET marker_idx == RFind(text, <<ME_MARKER>>)
  IN IF marker_idx = -1 THEN <<"error", text>>
     ELSE IF Find(text, <<API_MARKER>>, marker_idx) # -1 THEN <<"noop", text>>
     ELSE LET tail == SliceFrom(text, marker_idx)
              ms   == AnchoredMatches(tail, MePrefixRe)
          IN IF ms = {} THEN <<"error", text>>
             ELSE LET loc_start == marker_idx + MatchStart(tail, Min(ms))
                      be        == extract_braced_block(text, loc_start)
                      me_block  == be[1]
                      me_end    == be[2]
                  IN IF me_block = <<>> \/ me_end = -1 THEN <<"error", text>>
                     ELSE LET p  == Min(AnchoredMatches(me_block, MePrefixRe))
                              a1 == SubFirstHeader(me_block, p, MatchAt(me_block, p, MePrefixRe),
                                                   <<API_MARKER, NL>>, ApiPrefixHeader)
                              api_block == ReSubPlain(a1, ProxyPassRe, ProxyPassStrip)
                              insertion == <<NL>> \o api_block \o <<NL>>
                          IN <<"patched", InsertAt(text, me_end, insertion)>>

\* `^\s*listen\s+443\b.*\bssl\b`: a listen line for port 443 with ssl later on it.
ListenRe == <<"listen", WsPlus, "443">>
HasListenSsl(sb) ==
  \E p \in AnchoredMatches(sb, ListenRe) :
    LET e  == MatchAt(sb, p, ListenRe)
        nl == Find(sb, <<NL>>, e)
        line_end == IF nl = -1 THEN Len(sb) ELSE nl
    IN \E j \in e..(line_end - 1) : sb[j + 1] = "ssl"

\* `^(?P<indent>\s*)location\s+[^\{]+\{`: the offsets of the `location` of the
\* matches; the match ends after the first "{" that follows.
AnyLocationMatches(s) ==
  {p \in 0..(Len(s) - 3) :
     /\ s[p + 1] = "location"
     /\ LineStarts(s, p) # {}
     /\ IsWs(s[p + 2])
     /\ Find(s, <<"{">>, p + 1) # -1
     /\ (Find(s, <<"{">>, p + 1) > p + 2 \/ s[p + 2] \in {I2, I4, I8})}

\* Lines 91-120 of main on the beta SSL span sb: <<exit, sb>>.
CompatBetaBlock(sb) ==
  LET marker_idx == Find(sb, <<ME_MARKER>>, 0)
  IN IF marker_idx = -1 THEN <<"error", sb>>
     ELSE LET tail == SliceFrom(sb, marker_idx)
              ms   == AnyLocationMatches(tail)
          IN IF ms = {} THEN <<"error", sb>>
             ELSE LET indent   == Slice(tail, MatchStart(tail, Min(ms)), Min(ms))
                      me_start == marker_idx + MatchStart(tail, Min(ms))
                      be       == extract_braced_block(sb, me_start)
                      me_block == be[1]
                      me_end   == be[2]
                  IN IF me_block = <<>> \/ me_end = -1 THEN <<"error", sb>>
                     ELSE LET p  == Min(AnyLocationMatches(me_block))
                              a1 == indent \o <<API_MARKER, NL>>
                                    \o SubFirstHeader(me_block, p,
                                          Find(me_block, <<"{">>, p + 1) + 1,
                                          <<>>, ApiPrefixHeader)
                              api_block == ReSubPlain(a1, ProxyPassRe, ProxyPassStrip)
                              insertion == <<NL>> \o api_block \o <<NL>>
                          IN <<"patched", InsertAt(sb, me_end, insertion)>>

\* Lines 79-124: `for start, end in reversed(server_blocks(text))`, from the
\* n-th span down to the first; the first beta SSL span without
\* `location ^~ /api/` is patched, or ends the run, and the loop breaks.
RECURSIVE CompatBetaLoop(_, _, _)
CompatBetaLoop(text, spans, n) ==
  IF n = 0 THEN <<"noop", text>>
  ELSE LET sb == Slice(text, spans[n][1], spans[n][2])
       IN IF ~IsBetaBlock(sb) \/ ~HasListenSsl(sb) \/ Search(sb, ApiPrefixRe)
          THEN CompatBetaLoop(text, spans, n - 1)
          ELSE LET r == CompatBetaBlock(sb)
               IN IF ExitOf(r) = "error" THEN <<"error", text>>
                  ELSE <<"patched", Splice(text, spans[n], ResultOf(r))>>

\* patch-vps-nginx-api-compat-beta.py, main up to line 128: <<exit, text>>.
compat_beta_main(text) ==
  CompatBetaLoop(text, _server_blocks(text), Len(_server_blocks(text)))

(***************************************************************************)
(* patch-vps-nginx-internal-block-beta.py                                  *)
(***************************************************************************)
INTERNAL_BETA_MARKER == "# memalerts-managed: block internal relay (external must get 404)"

\* `server_name\s+beta\.twitchmemes\.ru\s*;` of the pattern of line 72.
BetaNameRe == <<"server_name", WsPlus, BetaDomain, WsStar, ";">>

\* `\s*$` from offset e on: the end of the longest run of whitespace after
\* which a line ends (a newline follows or the text ends), or -1.
LineEndAfter(sb, e) ==
  LET ends == {j \in e..SkipWs(sb, e) : j = Len(sb) \/ sb[j + 1] = NL}
  IN IF ends = {} THEN -1 ELSE Max(ends)

\* m_sn.end(0) of re.search(`^\s*server_name\s+beta\.twitchmemes\.ru\s*;\s*$`, sb):
\* the end of the leftmost match, or -1.
BetaNameLineMatchEnd(sb) ==
  LET ms == {p \in AnchoredMatches(sb, BetaNameRe) :
               LineEndAfter(sb, MatchAt(sb, p, BetaNameRe)) # -1}
  IN IF ms = {} THEN -1 ELSE LineEndAfter(sb, MatchAt(sb, Min(ms), BetaNameRe))

\* Lines 81-87: the block, at the fixed indentation of four spaces.
InternalBetaBlock ==
  << NL,
     I4, INTERNAL_BETA_MARKER, NL,
     I4, "location", SP, "^~", SP, "/internal/", SP, "{", NL,
     I4, I4, "return 404;", NL,
     I4, "}", NL >>

\* Lines 71-89 of main on the beta SSL span sb: <<exit, sb>>.
InternalBetaInsert(sb) ==
  LET m_end == BetaNameLineMatchEnd(sb)
  IN IF m_end = -1 THEN <<"error", sb>>
     ELSE LET nl           == Find(sb, <<NL>>, m_end)
              line_end     == IF nl = -1 THEN m_end ELSE nl
              insert_point == IF line_end < Len(sb) THEN line_end + 1 ELSE Len(sb)
          IN <<"patched", InsertAt(sb, insert_point, InternalBetaBlock)>>

\* Lines 61-92: `for start, end in reversed(server_blocks(text))`, from the
\* n-th span down to the first; the first beta SSL span without
\* `location ^~ /internal/` is patched, or ends the run, and the loop breaks.
RECURSIVE InternalBetaLoop(_, _, _)
InternalBetaLoop(text, spans, n) ==
  IF n = 0 THEN <<"noop", text>>
  ELSE LET sb == Slice(text, spans[n][1], spans[n][2])
       IN IF ~IsBetaBlock(sb) \/ ~HasListenSsl(sb) \/ Search(sb, InternalPrefixRe)
          THEN InternalBetaLoop(text, spans, n - 1)
          ELSE LET r == InternalBetaInsert(sb)
               IN IF ExitOf(r) = "error" THEN <<"error", text>>
                  ELSE <<"patched", Splice(text, spans[n], ResultOf(r))>>

\* patch-vps-nginx-internal-block-beta.py, main up to line 96: <<exit, text>>.
internal_block_beta_main(text) ==
  InternalBetaLoop(text, _server_blocks(text), Len(_server_blocks(text)))

(***************************************************************************)
(* fix_nginx_beta_moderation_proxy.py                                      *)
(***************************************************************************)
LOCATION_NEEDLE == <<"location", SP, "^~", SP, "/moderation/meme-assets">>
BETA_MARKER == "# Beta domain: beta.twitchmemes.ru"
INSERT_BEFORE ==
  << NL, I4,
     "# Other backend routes (excluding /auth, /me, /uploads, and /socket.io which are handled above)" >>

LOCATION_BLOCK ==
  << NL, NL,
     I4, "# Moderation API routes (must be BEFORE SPA fallback)", NL,
     I4, "# Frontend also has /moderation page, so proxy ONLY API subpaths.", NL,
     I4, "location", SP, "^~", SP, "/moderation/meme-assets", SP, "{", NL,
     I8, "proxy_pass", SP, "http://localhost:3002", ";", NL,
     I8, "proxy_http_version 1.1;", NL,
     I8, "proxy_set_header Host $host;", NL,
     I8, "proxy_set_header X-Real-IP $remote_addr;", NL,
     I8, "proxy_set_header X-Forwarded-For $proxy_add_x_forwarded_for;", NL,
     I8, "proxy_set_header X-Forwarded-Proto $scheme;", NL,
     I8, "# Pass Cloudflare real client IP header", NL,
     I8, "proxy_set_header CF-Connecting-IP $http_cf_connecting_ip;", NL,
     I8, "proxy_set_header Cookie $http_cookie;", NL,
     I8, "proxy_cache_bypass $http_upgrade;", NL,
     I8, "proxy_pass_header Set-Cookie;", NL,
     I8, "proxy_cookie_path / /;", NL,
     I8, "proxy_intercept_errors off;", NL,
     I8, "proxy_next_upstream off;", NL,
     I8, "proxy_redirect off;", NL,
     I4, "}", NL >>

\* fix_nginx_beta_moderation_proxy.py, main up to line 78: the return code
\* decided so far, whether a block is to be inserted, and the new text.
moderation_main(text) ==
  LET mi == Find(text, <<BETA_MARKER>>, 0)
      ib == Find(text, INSERT_BEFORE, mi)
  IN IF Find(text, LOCATION_NEEDLE, 0) # -1
       THEN [rc |-> 0, inserted |-> FALSE, new_text |-> text]
     ELSE IF mi = -1
       THEN [rc |-> 2, inserted |-> FALSE, new_text |-> text]
     ELSE IF ib = -1
       THEN [rc |-> 3, inserted |-> FALSE, new_text |-> text]
     ELSE [rc |-> 0, inserted |-> TRUE, new_text |-> InsertAt(text, ib, LOCATION_BLOCK)]

(***************************************************************************)
(* The documents the sessions start from.                                  *)
(***************************************************************************)
MeBlock ==
  << I4, "location", SP, "=", SP, "/me", SP, "{", NL,
     I8, "proxy_pass", SP, "http://localhost:3002", ";", NL,
     I4, "}", NL >>

MeOneLine ==
  << I4, "location", SP, "=", SP, "/me", SP, "{", SP,
     "proxy_pass", SP, "http://localhost:3002", ";", SP, "}", NL >>

MeLimited ==
  << I4, "location", SP, "=", SP, "/me", SP, "{", NL,
     I8, "limit_req zone=one burst=5;", NL,
     I8, "proxy_pass", SP, "http://localhost:3002", ";", NL,
     I4, "}", NL >>

CatchAll ==
  << I4, "location", SP, "/", SP, "{", NL,
     I8, "try_files $uri /index.html;", NL,
     I4, "}", NL >>

CatchAllTwoSpaces ==
  << I2, "location", SP, "/", SP, "{", NL,
     I4, "try_files $uri /index.html;", NL,
     I2, "}", NL >>

UploadsBare ==
  << I4, "location", SP, "/uploads/", SP, "{", NL,
     I8, "alias /opt/memalerts-backend/uploads/;", NL,
     I4, "}", NL >>

Redirect == << I4, "return 301 https://$host$request_uri;", NL >>

\* A location block whose closing brace is missing.
Unclosed ==
  << I4, "location", SP, "/", SP, "{", NL,
     I8, "try_files $uri /index.html;", NL >>

\* `listen 443 ssl;`
ListenSsl == << I4, "listen", SP, "443", SP, "ssl", ";", NL >>

\* The comment line fix_nginx_beta_moderation_proxy.py inserts before.
OtherRoutes == SubSeq(INSERT_BEFORE, 2, 3) \o <<NL>>

\* `listen 80;`
Listen80 == << I4, "listen", SP, "80", ";", NL >>

\* A `location ^~ /me/` block under the marker of patch-vps-nginx-me-proxy.py,
\* with a commented-out directive above the live one.
MarkedMePrefix ==
  << I4, ME_MARKER, NL,
     I4, "location", SP, "^~", SP, "/me/", SP, "{", NL,
     I8, "#", SP, "proxy_pass", SP, "http://localhost:3002", ";", NL,
     I8, "proxy_pass", SP, "http://localhost:3002", ";", NL,
     I4, "}", NL >>

\* A commented-out server header.
CommentedServer == << "#", SP, "server", SP, "{", NL >>

Server(name, items) ==
  << "server", SP, "{", NL, I4, "server_name", SP, name, ";", NL >> \o items \o << "}", NL >>

OtherDomain == "other.example"

ServerNamesUsed == {ProdDomain, BetaDomain, OtherDomain}

Bodies ==
  { MeBlock \o CatchAll,
    CatchAll,
    Redirect,
    MeOneLine \o CatchAll,
    MeLimited \o CatchAll,
    UploadsBare \o CatchAll,
    MeBlock \o CatchAllTwoSpaces,
    MeBlock \o Unclosed }

Servers == {Server(n, b) : n \in ServerNamesUsed, b \in Bodies}

FirstServers ==
  { Server(ProdDomain, Redirect), Server(OtherDomain, Redirect),
    Server(ProdDomain, MeBlock \o CatchAll), Server(OtherDomain, MeBlock \o CatchAll) }

SecondServers ==
  { Server(n, b) : n \in {ProdDomain, OtherDomain},
                   b \in {MeBlock \o CatchAll, MeBlock \o Unclosed, Redirect} }

Docs ==
  Servers
  \cup {CommentedServer \o s : s \in Servers}
  \cup {a \o b : a \in FirstServers, b \in SecondServers}
  \cup {<< "#", SP, "empty", NL >>}
  \cup { Server(BetaDomain, ListenSsl \o MarkedMePrefix \o CatchAll),
         Server(BetaDomain, ListenSsl \o MeBlock \o CatchAll) }
  \cup { Server(BetaDomain, Listen80 \o Redirect)
           \o Server(BetaDomain, ListenSsl \o MeBlock \o CatchAll),
         Server(BetaDomain, ListenSsl \o MarkedMePrefix \o CatchAll)
           \o Server(BetaDomain, ListenSsl \o MeBlock \o CatchAll),
         Server(BetaDomain, ListenSsl \o MeBlock \o CatchAll)
           \o Server(BetaDomain, ListenSsl \o CatchAll) }
  \cup { <<BETA_MARKER, NL>> \o Server(BetaDomain, ListenSsl \o OtherRoutes \o CatchAll),
         <<BETA_MARKER, NL>> \o Server(BetaDomain, ListenSsl \o CatchAll) }

(***************************************************************************)
(* The patch session of patch_nginx_site_file on one site file, run        *)
(* MaxRuns times in a row with the same parameters.                        *)
(***************************************************************************)
MaxRuns == 2

NoBackup == << "<no backup>" >>

VARIABLES
  file,      \* the content of the target file on disk
  backup,    \* the content of the backup this session copied, or NoBackup
  dry_run,   \* --dry-run
  run,       \* the number of the session
  pc,        \* where the session is
  text,      \* what _read_text returned
  blocks,    \* what _server_blocks returned
  k,         \* the blocks still to process, from the last to the first
  new_text,  \* the buffer being patched
  changed,   \* whether any server block was changed
  patched,   \* the server block being patched
  rule,      \* the next rule to apply to it, 0 between server blocks
  any,       \* whether a rule changed it
  outcomes,  \* the script and the outcome of each finished session
  script,    \* the script this session runs
  op,        \* the rule applied to a text on its own, "none" before the first time
  param,     \* the parameters it is applied with
  texts,     \* the text it was given, then the text each application returned
  flags,     \* the changed flag each application returned
  exit_code, \* the exit status of the script, NoExit while it runs
  conf_d,    \* the memalerts files present in /etc/nginx/conf.d
  site_files, \* the entries of sites-available and sites-enabled
  backup_dir, \* the files of /etc/nginx/backup, by name
  now,        \* the clock, in seconds
  queue,      \* the site files main() has still to visit
  before,     \* site_files when main() started
  written     \* the site files main() has written

sessionVarsButPc == <<file, backup, dry_run, run, text, blocks, k, new_text, changed,
                      patched, rule, any, outcomes, script>>

sessionVars == <<file, backup, dry_run, run, pc, text, blocks, k, new_text, changed,
                 patched, rule, any, outcomes, script>>

ruleVars == <<op, param, texts, flags>>

mainVars == <<exit_code, conf_d>>

batchVars == <<site_files, backup_dir, now, queue, before, written>>

vars == <<sessionVars, ruleVars, mainVars, batchVars>>

\* A site file entry that does not exist.
Absent == [kind |-> "absent"]

\* No batch over the site directories is run.
NoBatch ==
  /\ site_files = <<>>
  /\ backup_dir = <<>>
  /\ now = 0
  /\ queue = <<>>
  /\ before = <<>>
  /\ written = {}

NoParam == [kind |-> "none"]

\* No rule is applied on its own while sessions run.
NoRules ==
  /\ op = "none"
  /\ param = NoParam
  /\ texts = <<>>
  /\ flags = <<>>

\* The exit status of a script that has not ended.
NoExit == -1

\* /etc/nginx/conf.d/memalerts-compress.conf and memalerts-rate-limit.conf
GzipConf      == "memalerts-compress.conf"
RateLimitConf == "memalerts-rate-limit.conf"

\* The scripts, by file name.
InPlace       == "patch-nginx-in-place.py"
MeProxy       == "patch-vps-nginx-me-proxy.py"
AfterMeMarker == "patch-vps-nginx-api-after-me-marker.py"
CompatBeta    == "patch-vps-nginx-api-compat-beta.py"
InternalBeta  == "patch-vps-nginx-internal-block-beta.py"
Moderation    == "fix_nginx_beta_moderation_proxy.py"
Scripts == {InPlace, MeProxy, AfterMeMarker, CompatBeta, InternalBeta}

\* How a session ends: "skip" and "keep" without a change to make, "written"
\* after the write, "died" on SystemExit before any output, "crashed" on an
\* exception of the backup or the write.
Terminal == {"skip", "keep", "written", "died", "crashed"}

\* The scripts that take --dry-run.
DryRunScripts == {InPlace, Moderation}

\* No script has run yet.
FreshRun ==
  /\ exit_code = NoExit
  /\ conf_d = {}
  /\ backup = NoBackup
  /\ run = 1
  /\ pc = "idle"
  /\ text = <<>>
  /\ blocks = <<>>
  /\ k = 0
  /\ new_text = <<>>
  /\ changed = FALSE
  /\ patched = <<>>
  /\ rule = 0
  /\ any = FALSE
  /\ outcomes = <<>>
  /\ NoRules

Init ==
  /\ NoBatch
  /\ file \in Docs
  /\ script \in Scripts
  /\ dry_run \in BOOLEAN
  /\ FreshRun

\* main, lines 759-761: ensure_gzip_conf, skipped when nginx.conf already
\* turns gzip on, and ensure_rate_limit_zones_conf create their conf.d files
\* when missing (_ensure_file_if_missing, _write_text: not in a dry run).
EnsureConfD ==
  /\ pc = "idle"
  /\ script = InPlace
  /\ \E gzip_enabled \in BOOLEAN :
       conf_d' = IF dry_run THEN conf_d
                 ELSE conf_d \cup (IF gzip_enabled THEN {} ELSE {GzipConf})
                             \cup {RateLimitConf}
  /\ pc' = "main"
  /\ UNCHANGED <<sessionVarsButPc, ruleVars, batchVars, exit_code>>

\* Lines 587-595: read the file, scan it, give up when it has no server block.
Scan ==
  /\ pc = "main"
  /\ script = InPlace
  /\ text' = file
  /\ blocks' = _server_blocks(file)
  /\ k' = Len(_server_blocks(file))
  /\ new_text' = file
  /\ pc' = IF _server_blocks(file) = <<>> THEN "skip" ELSE "apply"
  /\ UNCHANGED <<file, backup, dry_run, run, changed, patched, rule, any, outcomes, script, ruleVars, batchVars, mainVars>>

\* Lines 597-602: take the next span of reversed(blocks); skip it when no
\* server_name of it is among match_domains.
NextBlock ==
  /\ pc = "apply"
  /\ k > 0
  /\ rule = 0
  /\ IF MatchedOf(new_text, blocks[k]) = {}
     THEN /\ k' = k - 1
          /\ UNCHANGED <<patched, rule, any>>
     ELSE /\ patched' = Slice(new_text, blocks[k][1], blocks[k][2])
          /\ rule' = 1
          /\ any' = FALSE
          /\ k' = k
  /\ UNCHANGED <<file, backup, dry_run, run, pc, text, blocks, new_text, changed, outcomes, script, ruleVars, batchVars, mainVars>>

\* Lines 624-654: the next call of the rule sequence on the server block.
ApplyRules ==
  /\ pc = "apply"
  /\ rule > 0
  /\ rule <= Len(BlockRules(MatchedOf(new_text, blocks[k])))
  /\ LET r == ApplyRule(patched, BlockRules(MatchedOf(new_text, blocks[k]))[rule])
     IN /\ patched' = TextOf(r)
        /\ any' = (any \/ ChangedOf(r))
  /\ rule' = rule + 1
  /\ UNCHANGED <<file, backup, dry_run, run, pc, text, blocks, k, new_text, changed, outcomes, script, ruleVars, batchVars, mainVars>>

\* Lines 656-659: put the patched block back when a rule changed it.
EndBlock ==
  /\ pc = "apply"
  /\ rule > 0
  /\ rule > Len(BlockRules(MatchedOf(new_text, blocks[k])))
  /\ new_text' = IF any THEN Splice(new_text, blocks[k], patched) ELSE new_text
  /\ changed' = (changed \/ any)
  /\ k' = k - 1
  /\ rule' = 0
  /\ patched' = <<>>
  /\ any' = FALSE
  /\ UNCHANGED <<file, backup, dry_run, run, pc, text, blocks, outcomes, script, ruleVars, batchVars, mainVars>>

\* Keep without its early return: the session goes on to the backup and the
\* write although nothing changed.
Keep_falls_through ==
  /\ pc = "apply"
  /\ k = 0
  /\ rule = 0
  /\ ~changed
  /\ backup' = IF dry_run THEN backup ELSE file
  /\ pc' = "write"
  /\ UNCHANGED <<file, dry_run, run, text, blocks, k, new_text, changed, patched, rule, any, outcomes, script, ruleVars, batchVars, mainVars>>

\* Lines 661-662: nothing changed, keep the file.
Keep ==
  /\ pc = "apply"
  /\ k = 0
  /\ rule = 0
  /\ ~changed
  /\ pc' = "keep"
  /\ UNCHANGED <<file, backup, dry_run, run, text, blocks, k, new_text, changed, patched, rule, any, outcomes, script, ruleVars, batchVars, mainVars>>

\* Line 664, _backup_file: copy the file to the backup directory (not in a dry run).
Backup ==
  /\ pc = "apply"
  /\ k = 0
  /\ rule = 0
  /\ changed
  /\ backup' = IF dry_run THEN backup ELSE file
  /\ pc' = "write"
  /\ UNCHANGED <<file, dry_run, run, text, blocks, k, new_text, changed, patched, rule, any, outcomes, script, ruleVars, batchVars, mainVars>>

\* Line 664: mkdir or shutil.copy2 raises, the session ends with the exception.
BackupFails ==
  /\ pc = "apply"
  /\ k = 0
  /\ rule = 0
  /\ changed
  /\ ~dry_run
  /\ pc' = "crashed"
  /\ exit_code' = 1
  /\ UNCHANGED <<file, backup, dry_run, run, text, blocks, k, new_text, changed, patched, rule, any, outcomes, script, ruleVars, batchVars, conf_d>>

\* Lines 665-666, _write_text: write the patched text (not in a dry run).
Write ==
  /\ pc = "write"
  /\ file' = IF dry_run THEN file ELSE new_text
  /\ pc' = "written"
  /\ UNCHANGED <<backup, dry_run, run, text, blocks, k, new_text, changed, patched, rule, any, outcomes, script, ruleVars, batchVars, mainVars>>

\* Line 665: the write fails: refused before the file is opened
\* (PermissionError, _die with code 2), or broken off after write_text has
\* truncated it (another OSError, exit status 1).
WriteFails ==
  /\ pc = "write"
  /\ ~dry_run
  /\ \/ file' = file /\ exit_code' = 2
     \/ file' = <<>> /\ exit_code' = 1
  /\ pc' = "crashed"
  /\ UNCHANGED <<backup, dry_run, run, text, blocks, k, new_text, changed, patched, rule, any, outcomes, script, ruleVars, batchVars, conf_d>>

\* main, lines 764-794, for the one site file: any_vhost_patched is the
\* changed flag of its PatchResult; main prints the summary and, when no vhost
\* file was patched, ends in _die (exit status 2).
MainExit ==
  /\ script = InPlace
  /\ pc \in {"skip", "keep", "written"}
  /\ exit_code = NoExit
  /\ exit_code' = IF changed THEN 0 ELSE 2
  /\ UNCHANGED <<sessionVars, ruleVars, batchVars, conf_d>>

\* The VPS scripts: main() reads the file and works out the patched
\* text; SystemExit ends it, NOOP ends it, else the backup and the write follow.
VpsMain(r) ==
  /\ text' = file
  /\ new_text' = ResultOf(r)
  /\ changed' = (ExitOf(r) = "patched")
  /\ pc' = CASE ExitOf(r) = "error" -> "died"
             [] ExitOf(r) = "noop" -> "keep"
             [] ExitOf(r) = "patched" -> "vps_backup"
  /\ exit_code' = CASE ExitOf(r) = "error" -> 1
                    [] ExitOf(r) = "noop" -> 0
                    [] ExitOf(r) = "patched" -> NoExit
  /\ UNCHANGED <<file, backup, dry_run, run, blocks, k, patched, rule, any, outcomes, script, ruleVars, batchVars, conf_d>>

\* patch-vps-nginx-me-proxy.py, main, lines 83-187.
RunMeProxy ==
  /\ pc = "idle"
  /\ script = MeProxy
  /\ VpsMain(me_proxy_main(file))

\* patch-vps-nginx-api-after-me-marker.py, main, lines 44-78.
RunAfterMeMarker ==
  /\ pc = "idle"
  /\ script = AfterMeMarker
  /\ VpsMain(after_me_marker_main(file))

\* patch-vps-nginx-api-compat-beta.py, main, lines 74-128.
RunCompatBeta ==
  /\ pc = "idle"
  /\ script = CompatBeta
  /\ VpsMain(compat_beta_main(file))

\* patch-vps-nginx-internal-block-beta.py, main, lines 56-96.
RunInternalBeta ==
  /\ pc = "idle"
  /\ script = InternalBeta
  /\ VpsMain(internal_block_beta_main(file))

\* VpsBackup that writes no backup and lets main go on to the write.
VpsBackup_skipped ==
  /\ pc = "vps_backup"
  /\ backup' = backup
  /\ pc' = "vps_write"
  /\ UNCHANGED <<file, dry_run, run, text, blocks, k, new_text, changed, patched, rule, any, outcomes, script, ruleVars, batchVars, mainVars>>

\* `bak.write_text(orig)`: the backup gets the text main read.
VpsBackup ==
  /\ pc = "vps_backup"
  /\ backup' = text
  /\ pc' = "vps_write"
  /\ UNCHANGED <<file, dry_run, run, text, blocks, k, new_text, changed, patched, rule, any, outcomes, script, ruleVars, batchVars, mainVars>>

\* `bak.write_text(orig)` raises: main ends with the exception.
VpsBackupFails ==
  /\ pc = "vps_backup"
  /\ pc' = "crashed"
  /\ exit_code' = 1
  /\ UNCHANGED <<file, backup, dry_run, run, text, blocks, k, new_text, changed, patched, rule, any, outcomes, script, ruleVars, batchVars, conf_d>>

\* `TARGET.write_text(text)`: the file gets the patched text.
VpsWrite ==
  /\ pc = "vps_write"
  /\ file' = new_text
  /\ pc' = "written"
  /\ exit_code' = 0
  /\ UNCHANGED <<backup, dry_run, run, text, blocks, k, new_text, changed, patched, rule, any, outcomes, script, ruleVars, batchVars, conf_d>>

\* `TARGET.write_text(text)` raises: before the file is opened, or after
\* write_text has truncated it.
VpsWriteFails ==
  /\ pc = "vps_write"
  /\ file' \in {file, <<>>}
  /\ pc' = "crashed"
  /\ exit_code' = 1
  /\ UNCHANGED <<backup, dry_run, run, text, blocks, k, new_text, changed, patched, rule, any, outcomes, script, ruleVars, batchVars, conf_d>>

\* fix_nginx_beta_moderation_proxy.py, main, lines 59-78.
RunModeration ==
  /\ pc = "idle"
  /\ script = Moderation
  /\ text' = file
  /\ new_text' = moderation_main(file).new_text
  /\ changed' = moderation_main(file).inserted
  /\ pc' = IF moderation_main(file).rc # 0 THEN "died"
           ELSE IF moderation_main(file).inserted THEN "mod_backup" ELSE "keep"
  /\ exit_code' = IF moderation_main(file).inserted THEN NoExit ELSE moderation_main(file).rc
  /\ UNCHANGED <<file, backup, dry_run, run, blocks, k, patched, rule, any, outcomes, script, ruleVars, batchVars, conf_d>>

\* Lines 82-83: `backup.write_text(text)`, not in a dry run.
ModBackup ==
  /\ pc = "mod_backup"
  /\ backup' = IF dry_run THEN backup ELSE text
  /\ pc' = "mod_write"
  /\ UNCHANGED <<file, dry_run, run, text, blocks, k, new_text, changed, patched, rule, any, outcomes, script, ruleVars, batchVars, mainVars>>

\* Line 83: `backup.write_text(text)` raises, main ends with the exception.
ModBackupFails ==
  /\ pc = "mod_backup"
  /\ ~dry_run
  /\ pc' = "crashed"
  /\ exit_code' = 1
  /\ UNCHANGED <<file, backup, dry_run, run, text, blocks, k, new_text, changed, patched, rule, any, outcomes, script, ruleVars, batchVars, conf_d>>

\* ModWrite that writes the file whether or not --dry-run was given.
ModWrite_always ==
  /\ pc = "mod_write"
  /\ file' = new_text
  /\ pc' = "written"
  /\ exit_code' = 0
  /\ UNCHANGED <<backup, dry_run, run, text, blocks, k, new_text, changed, patched, rule, any, outcomes, script, ruleVars, batchVars, conf_d>>

\* Lines 82-88: `path.write_text(new_text)`, not in a dry run; return 0.
ModWrite ==
  /\ pc = "mod_write"
  /\ file' = IF dry_run THEN file ELSE new_text
  /\ pc' = "written"
  /\ exit_code' = 0
  /\ UNCHANGED <<backup, dry_run, run, text, blocks, k, new_text, changed, patched, rule, any, outcomes, script, ruleVars, batchVars, conf_d>>

\* Line 84: `path.write_text(new_text)` raises: before the file is opened, or
\* after write_text has truncated it.
ModWriteFails ==
  /\ pc = "mod_write"
  /\ ~dry_run
  /\ file' \in {file, <<>>}
  /\ pc' = "crashed"
  /\ exit_code' = 1
  /\ UNCHANGED <<backup, dry_run, run, text, blocks, k, new_text, changed, patched, rule, any, outcomes, script, ruleVars, batchVars, conf_d>>

\* What is kept of a finished session.
Outcome ==
  [script |-> script, pc |-> pc, dry_run |-> dry_run, exit_code |-> exit_code,
   changed |-> changed, new_text |-> new_text]

\* A script is run on the file the last session left.
RunAgain ==
  /\ pc \in Terminal
  /\ exit_code # NoExit
  /\ run < MaxRuns
  /\ run' = run + 1
  /\ outcomes' = Append(outcomes, Outcome)
  /\ exit_code' = NoExit
  /\ pc' = "idle"
  /\ backup' = NoBackup
  /\ text' = <<>>
  /\ blocks' = <<>>
  /\ k' = 0
  /\ new_text' = <<>>
  /\ changed' = FALSE
  /\ script' \in Scripts
  /\ UNCHANGED <<file, dry_run, patched, rule, any, ruleVars, batchVars, conf_d>>

Next ==
  \/ EnsureConfD
  \/ Scan
  \/ NextBlock
  \/ ApplyRules
  \/ EndBlock
  \/ Keep
  \/ Backup
  \/ BackupFails
  \/ Write
  \/ WriteFails
  \/ MainExit
  \/ RunMeProxy
  \/ RunAfterMeMarker
  \/ RunCompatBeta
  \/ RunInternalBeta
  \/ VpsBackup
  \/ VpsBackupFails
  \/ VpsWrite
  \/ VpsWriteFails
  \/ RunAgain

Spec == Init /\ [][Next]_vars

(***************************************************************************)
(* The scripts that take --dry-run (patch-nginx-in-place.py and            *)
(* fix_nginx_beta_moderation_proxy.py): one of them is run MaxRuns times   *)
(* in a row on the file the last run left, each time with or without       *)
(* --dry-run.                                                              *)
(***************************************************************************)
InitMain ==
  /\ NoBatch
  /\ file \in Docs
  /\ script \in DryRunScripts
  /\ dry_run \in BOOLEAN
  /\ FreshRun

\* The script is run again, with or without --dry-run.
RunMainAgain ==
  /\ pc \in Terminal
  /\ exit_code # NoExit
  /\ run < MaxRuns
  /\ run' = run + 1
  /\ outcomes' = Append(outcomes, Outcome)
  /\ exit_code' = NoExit
  /\ pc' = "idle"
  /\ backup' = NoBackup
  /\ text' = <<>>
  /\ blocks' = <<>>
  /\ k' = 0
  /\ new_text' = <<>>
  /\ changed' = FALSE
  /\ dry_run' \in BOOLEAN
  /\ UNCHANGED <<file, script, patched, rule, any, ruleVars, batchVars, conf_d>>

NextMain ==
  \/ EnsureConfD
  \/ Scan
  \/ NextBlock
  \/ ApplyRules
  \/ EndBlock
  \/ Keep
  \/ Backup
  \/ BackupFails
  \/ Write
  \/ WriteFails
  \/ MainExit
  \/ RunModeration
  \/ ModBackup
  \/ ModBackupFails
  \/ ModWrite
  \/ ModWriteFails
  \/ RunMainAgain

SpecMain == InitMain /\ [][NextMain]_vars

(***************************************************************************)
(* The rules on their own: one rule, with one choice of parameters, is     *)
(* applied to a complete server block (or, for the rules of the VPS        *)
(* scripts that work on the whole file, to a file), then again to what it  *)
(* returned, MaxApply times in all.                                        *)
(***************************************************************************)
MaxApply == 2

SocketIoBlock ==
  << I4, "location", SP, "/socket.io/", SP, "{", NL,
     I8, "proxy_pass", SP, "http://localhost:3002", ";", NL,
     I4, "}", NL >>

\* A `location = /me` block after an empty line, with a comment and headers.
MeWithHeaders ==
  << NL,
     I4, "location", SP, "=", SP, "/me", SP, "{", NL,
     I8, "#", SP, "backend", NL,
     I8, "proxy_pass", SP, "http://localhost:3002", ";", NL,
     I8, "proxy_set_header Cookie $http_cookie;", NL,
     I4, "}", NL >>

\* The marked `location ^~ /me/` block as patch-vps-nginx-me-proxy.py leaves it.
MarkedMePrefixPlain ==
  << I4, ME_MARKER, NL,
     I4, "location", SP, "^~", SP, "/me/", SP, "{", NL,
     I8, "proxy_pass", SP, "http://localhost:3002", ";", NL,
     I8, "proxy_set_header Cookie $http_cookie;", NL,
     I4, "}", NL >>

RuleBodies ==
  { MeBlock \o CatchAll,
    MeOneLine \o CatchAll,
    MeWithHeaders \o CatchAll,
    MeLimited \o CatchAll,
    MeBlock \o CatchAllTwoSpaces,
    SocketIoBlock \o CatchAll,
    SocketIoBlock \o CatchAllTwoSpaces,
    CatchAll,
    Redirect,
    MeBlock \o MarkedMePrefixPlain \o CatchAll,
    ListenSsl \o MarkedMePrefixPlain \o CatchAll,
    ListenSsl \o MarkedMePrefix \o CatchAll,
    MeBlock \o MeWithHeaders \o CatchAll,
    MeBlock \o MeBlock \o CatchAll,
    MeBlock \o CatchAll \o MeBlock,
    MeWithHeaders \o MeBlock \o CatchAll,
    MeLimited \o MeBlock \o CatchAll,
    ListenSsl \o MarkedMePrefixPlain \o MarkedMePrefix \o CatchAll }

RuleInputs ==
  {Server(n, b) : n \in {ProdDomain, BetaDomain}, b \in RuleBodies}
  \cup { Server(ProdDomain, Redirect) \o Server(BetaDomain, MeBlock \o CatchAll) }

\* The calls of _ensure_location_if_missing and of _ensure_location_rate_limit
\* the rules are tried with, taken from the rule sequence.
EnsureParams == {EnsureInternal, EnsureSocketIo(3002), EnsureApiCompat(3002)}

RateParams ==
  { RateLimitRule(<<"=", WsStar, "/me">>, "memalerts_api_per_ip", 30),
    RateLimitRule(<<"/socket.io/">>, "memalerts_api_per_ip", 60),
    RateLimitRule(<<"/">>, "memalerts_api_per_ip", 80) }

\* The two insertions of step 2 of patch-vps-nginx-me-proxy.py, at the default
\* indentation.
BeforeParams ==
  { [kind |-> "before", regex |-> InternalPrefixRe, block |-> InternalBlockAt(<<I4>>)],
    [kind |-> "before", regex |-> ApiPrefixRe, block |-> ApiCompatBlockAt(<<I4>>)] }

\* No session runs while a rule is applied on its own.
NoSession ==
  /\ file = <<>>
  /\ backup = NoBackup
  /\ dry_run = FALSE
  /\ run = 1
  /\ pc = "rules"
  /\ text = <<>>
  /\ blocks = <<>>
  /\ k = 0
  /\ new_text = <<>>
  /\ changed = FALSE
  /\ patched = <<>>
  /\ rule = 0
  /\ any = FALSE
  /\ outcomes = <<>>
  /\ script = InPlace
  /\ exit_code = NoExit
  /\ conf_d = {}

InitRules ==
  /\ NoBatch
  /\ NoSession
  /\ op = "none"
  /\ param = NoParam
  /\ texts \in {<<t>> : t \in RuleInputs}
  /\ flags = <<>>

\* The text the next application works on.
Current == texts[Len(texts)]

\* The rule `name` with the parameters prm may be applied now.
MayApply(name, prm) ==
  /\ pc = "rules"
  /\ Len(flags) < MaxApply
  /\ op = "none" \/ (op = name /\ param = prm)

\* The application returned the text t and the flag c.
Applied(name, prm, t, c) ==
  /\ op' = name
  /\ param' = prm
  /\ texts' = Append(texts, t)
  /\ flags' = Append(flags, c)
  /\ UNCHANGED <<sessionVars, mainVars, batchVars>>

\* _ensure_location_if_missing(server_block, regex, block)
ApplyEnsureLocation ==
  \E prm \in EnsureParams :
    /\ MayApply("ensure", prm)
    /\ LET r == _ensure_location_if_missing(Current, prm.regex, prm.block)
       IN Applied("ensure", prm, TextOf(r), ChangedOf(r))

\* ensure_block_before_location_slash(sb, block) as main calls it: when no
\* header of the block is in sb yet.
ApplyEnsureBefore ==
  \E prm \in BeforeParams :
    /\ MayApply("before", prm)
    /\ LET r == IF prm.regex = InternalPrefixRe
                THEN EnsureInternalBefore(Current, <<I4>>)
                ELSE EnsureApiBefore(Current, <<I4>>)
       IN Applied("before", prm, TextOf(r), ChangedOf(r))

\* The clone of `location = /me` in _ensure_memalerts_api_proxy_locations.
ApplyCloneMeExact ==
  /\ MayApply("clone /me", CloneRule)
  /\ LET r == CloneMeExact(Current)
     IN Applied("clone /me", CloneRule, TextOf(r), ChangedOf(r))

\* Step 1 of patch-vps-nginx-me-proxy.py.
ApplyMeProxyClone ==
  /\ MayApply("me-proxy clone", CloneRule)
  /\ LET r == MeProxyClone(Current)
     IN Applied("me-proxy clone", CloneRule, ResultOf(r), ExitOf(r) = "patched")

\* The clone of patch-vps-nginx-api-after-me-marker.py.
ApplyAfterMeMarker ==
  /\ MayApply("after-me-marker clone", CloneRule)
  /\ LET r == after_me_marker_main(Current)
     IN Applied("after-me-marker clone", CloneRule, ResultOf(r), ExitOf(r) = "patched")

\* The clone of patch-vps-nginx-api-compat-beta.py in one server block.
ApplyCompatBeta ==
  /\ MayApply("compat-beta clone", CloneRule)
  /\ LET r == CompatBetaBlock(Current)
     IN Applied("compat-beta clone", CloneRule, ResultOf(r), ExitOf(r) = "patched")

\* _ensure_location_rate_limit(server_block, regex, zone, burst)
ApplyRateLimit ==
  \E prm \in RateParams :
    /\ MayApply("rate", prm)
    /\ LET r == _ensure_location_rate_limit(Current, prm.regex, prm.zone, prm.burst)
       IN Applied("rate", prm, TextOf(r), ChangedOf(r))

NextRules ==
  \/ ApplyEnsureLocation
  \/ ApplyEnsureBefore
  \/ ApplyCloneMeExact
  \/ ApplyMeProxyClone
  \/ ApplyAfterMeMarker
  \/ ApplyCompatBeta
  \/ ApplyRateLimit

SpecRules == InitRules /\ [][NextRules]_vars

(***************************************************************************)
(* The batch of patch-nginx-in-place.py: main() visits the files of        *)
(* /etc/nginx/sites-available and /etc/nginx/sites-enabled (lines 765-775) *)
(* and patch_nginx_site_file backs up and writes each file it changes,     *)
(* while the clock runs.                                                   *)
(***************************************************************************)
\* The seconds the clock may advance during one batch.
MaxClock == 2

NGINX_SITES_AVAILABLE == "sites-available"
NGINX_SITES_ENABLED   == "sites-enabled"

\* sorted(dir_path.iterdir()): the entry names of the model, in order.
SiteNames == <<"default", "memalerts">>

SitePaths ==
  {[dir |-> d, name |-> SiteNames[n]] :
     d \in {NGINX_SITES_AVAILABLE, NGINX_SITES_ENABLED}, n \in 1..Len(SiteNames)}

RegularFile(content) == [kind |-> "file", content |-> content]
SymLink(target)      == [kind |-> "link", target |-> target]

\* p.resolve(): a symbolic link resolves to its target.
Resolve(fs, p) == IF fs[p].kind = "link" THEN fs[p].target ELSE p

\* p.is_file(), which follows symbolic links.
IsFile(fs, p) == fs[Resolve(fs, p)].kind = "file"

\* _iter_files(dir_path): the files of the directory, sorted by name.
_iter_files(fs, dir_path) ==
  SelectSeq([n \in 1..Len(SiteNames) |-> [dir |-> dir_path, name |-> SiteNames[n]]],
            LAMBDA p : IsFile(fs, p))

\* _iter_nginx_site_files: both directories, a file skipped when its real
\* path has been seen.
_iter_nginx_site_files(fs) ==
  LET all == _iter_files(fs, NGINX_SITES_AVAILABLE) \o _iter_files(fs, NGINX_SITES_ENABLED)
      first(n) == \A m \in 1..(n - 1) : Resolve(fs, all[m]) # Resolve(fs, all[n])
      keep == {n \in 1..Len(all) : first(n)}
      RECURSIVE pick(_)
      pick(n) == IF n > Len(all) THEN <<>>
                 ELSE (IF n \in keep THEN <<all[n]>> ELSE <<>>) \o pick(n + 1)
  IN pick(1)

\* _backup_file, lines 67-68: f"{path.name}.bak.{_now_tag()}" in NGINX_BACKUP_DIR:
\* the base name of the file and the second of the clock.
BackupName(path, tag) == [name |-> path.name, tag |-> tag]

\* shutil.copy2(path, backup_path): the backup directory after the copy,
\* a file of that name replaced.
_backup_file(dir, path, content, tag) ==
  [b \in DOMAIN dir \cup {BackupName(path, tag)} |->
     IF b = BackupName(path, tag) THEN content ELSE dir[b]]

\* The site files of the model: a vhost of the production domain on port 80,
\* one on 443, and a vhost of another domain.
SiteTexts ==
  { Server(ProdDomain, Listen80 \o CatchAll),
    Server(ProdDomain, ListenSsl \o CatchAll),
    Server(OtherDomain, CatchAll) }

AvailableMemalerts == [dir |-> NGINX_SITES_AVAILABLE, name |-> "memalerts"]

InitBatch ==
  /\ NoRules
  /\ file = <<>>
  /\ backup = NoBackup
  /\ dry_run = FALSE
  /\ run = 1
  /\ pc = "batch-idle"
  /\ text = <<>>
  /\ blocks = <<>>
  /\ k = 0
  /\ new_text = <<>>
  /\ changed = FALSE
  /\ patched = <<>>
  /\ rule = 0
  /\ any = FALSE
  /\ outcomes = <<>>
  /\ script = InPlace
  /\ exit_code = NoExit
  /\ conf_d = {}
  /\ \E a \in SiteTexts, d \in SiteTexts :
       \E e \in {RegularFile(t) : t \in SiteTexts} \cup {SymLink(AvailableMemalerts), Absent} :
         site_files = [p \in SitePaths |->
                         IF p.dir = NGINX_SITES_AVAILABLE
                         THEN (IF p.name = "memalerts" THEN RegularFile(a) ELSE Absent)
                         ELSE (IF p.name = "memalerts" THEN e ELSE RegularFile(d))]
  /\ backup_dir = <<>>
  /\ now = 0
  /\ queue = <<>>
  /\ before = <<>>
  /\ written = {}

\* Line 765: main() starts the loop over the site files.
BatchStart ==
  /\ pc = "batch-idle"
  /\ queue' = _iter_nginx_site_files(site_files)
  /\ before' = site_files
  /\ pc' = "batch"
  /\ UNCHANGED <<file, backup, dry_run, run, text, blocks, k, new_text, changed, patched,
                 rule, any, outcomes, script, ruleVars, mainVars,
                 site_files, backup_dir, now, written>>

\* Lines 765-766: the next site file is handed to patch_nginx_site_file.
OpenSite ==
  /\ pc = "batch"
  /\ queue # <<>>
  /\ file' = site_files[Resolve(site_files, Head(queue))].content
  /\ backup' = NoBackup
  /\ changed' = FALSE
  /\ pc' = "main"
  /\ UNCHANGED <<dry_run, run, text, blocks, k, new_text, patched, rule, any, outcomes,
                 script, ruleVars, mainVars, batchVars>>

\* Line 664, _backup_file: the file is copied into the backup directory under
\* its base name and the second of the clock.
SiteBackup ==
  /\ pc = "apply"
  /\ k = 0
  /\ rule = 0
  /\ changed
  /\ backup' = file
  /\ backup_dir' = _backup_file(backup_dir, Head(queue), file, now)
  /\ pc' = "write"
  /\ UNCHANGED <<file, dry_run, run, text, blocks, k, new_text, changed, patched, rule, any,
                 outcomes, script, ruleVars, mainVars, site_files, now, queue, before, written>>

\* Lines 665-666, _write_text: the patched text is written to the site file
\* (through the link, when the path is one).
SiteWrite ==
  /\ pc = "write"
  /\ file' = new_text
  /\ site_files' = [site_files EXCEPT ![Resolve(site_files, Head(queue))] = RegularFile(new_text)]
  /\ written' = written \cup {Head(queue)}
  /\ pc' = "written"
  /\ UNCHANGED <<backup, dry_run, run, text, blocks, k, new_text, changed, patched, rule, any,
                 outcomes, script, ruleVars, mainVars, backup_dir, now, queue, before>>

\* Lines 773-775: the result is appended, the loop goes to the next file.
NextSite ==
  /\ pc \in {"skip", "keep", "written"}
  /\ queue' = Tail(queue)
  /\ pc' = "batch"
  /\ UNCHANGED <<file, backup, dry_run, run, text, blocks, k, new_text, changed, patched,
                 rule, any, outcomes, script, ruleVars, mainVars,
                 site_files, backup_dir, now, before, written>>

\* _now_tag, lines 34-35: the clock has reached the next second.
Tick ==
  /\ pc # "batch-done"
  /\ now < MaxClock
  /\ now' = now + 1
  /\ UNCHANGED <<sessionVars, ruleVars, mainVars, site_files, backup_dir, queue, before, written>>

\* Lines 786-790: the summary, and _die when no vhost file was patched.
BatchExit ==
  /\ pc = "batch"
  /\ queue = <<>>
  /\ pc' = "batch-done"
  /\ exit_code' = IF written = {} THEN 2 ELSE 0
  /\ UNCHANGED <<file, backup, dry_run, run, text, blocks, k, new_text, changed, patched,
                 rule, any, outcomes, script, ruleVars, conf_d, batchVars>>

NextBatch ==
  \/ BatchStart
  \/ OpenSite
  \/ Scan
  \/ NextBlock
  \/ ApplyRules
  \/ EndBlock
  \/ Keep
  \/ SiteBackup
  \/ SiteWrite
  \/ NextSite
  \/ Tick
  \/ BatchExit

SpecBatch == InitBatch /\ [][NextBatch]_vars

(***************************************************************************)
(* What the claims speak of: the structure of the document itself, read    *)
(* the way nginx reads it, independently of the scanner of the scripts.    *)
(***************************************************************************)

\* The offset j lies in a comment: a "#" precedes it on its line.
InComment(s, j) ==
  \E h \in 0..(j - 1) : s[h + 1] = "#" /\ \A m \in h..(j - 1) : s[m + 1] # NL

StructuralOpens(s) == {j \in 0..(Len(s) - 1) : s[j + 1] = "{" /\ ~InComment(s, j)}
StructuralCloses(s) == {j \in 0..(Len(s) - 1) : s[j + 1] = "}" /\ ~InComment(s, j)}

\* The nesting depth after offset j, comments left out.
DepthAfter(s, j) ==
  Cardinality({o \in StructuralOpens(s) : o <= j})
    - Cardinality({c \in StructuralCloses(s) : c <= j})

\* Every "}" closes a "{" and every "{" is closed.
BracesBalanced(s) ==
  /\ \A c \in StructuralCloses(s) : DepthAfter(s, c) >= 0
  /\ Cardinality(StructuralOpens(s)) = Cardinality(StructuralCloses(s))

\* Exactly one "{" of the document is never closed.
OneUnmatchedOpen(s) ==
  /\ \A c \in StructuralCloses(s) : DepthAfter(s, c) >= 0
  /\ Cardinality(StructuralOpens(s)) = Cardinality(StructuralCloses(s)) + 1

\* The server blocks of a balanced document: from each `server {` header at
\* nesting depth 0, outside comments, to the "}" that closes its "{".
TrueServerSpans(s) ==
  { <<p, Min({c \in StructuralCloses(s) :
                c > p /\ DepthAfter(s, c) = DepthAfter(s, p)}) + 1>> :
      p \in {q \in Matches(s, ServerHeader) : ~InComment(s, q) /\ DepthAfter(s, q) = 0} }

\* The server blocks whose server_name is one of match_domains.
TargetedSpans(s) ==
  {sp \in TrueServerSpans(s) : _server_names(Slice(s, sp[1], sp[2])) \cap match_domains # {}}

\* The text of s outside the spans of T, as the sequence of the pieces between them.
RECURSIVE PiecesOutside(_, _, _)
PiecesOutside(s, from, T) ==
  IF T = {} THEN <<SliceFrom(s, from)>>
  ELSE LET sp == CHOOSE t \in T : \A u \in T : t[1] <= u[1]
       IN <<Slice(s, from, sp[1])>> \o PiecesOutside(s, sp[2], T \ {sp})

\* t holds the pieces from the n-th on, in order, from offset `from` on, the
\* last one at its very end.
RECURSIVE HoldsPieces(_, _, _, _)
HoldsPieces(t, from, pieces, n) ==
  IF n = Len(pieces)
  THEN Len(t) - Len(pieces[n]) >= from /\ EndsWith(t, pieces[n])
  ELSE \E q \in from..(Len(t) - Len(pieces[n])) :
         /\ Slice(t, q, q + Len(pieces[n])) = pieces[n]
         /\ HoldsPieces(t, q + Len(pieces[n]), pieces, n + 1)

\* t is s with nothing but the spans of T replaced.
SameOutside(s, t, T) ==
  LET pieces == PiecesOutside(s, 0, T)
  IN /\ StartsWith(t, pieces[1])
     /\ IF Len(pieces) = 1 THEN t = s
        ELSE HoldsPieces(t, Len(pieces[1]), pieces, 2)

\* The session has read the file and is past the scan.
InSession == pc \notin {"idle", "main", "rules"}

\* The session is one of patch-nginx-in-place.py.
InPlaceSession == InSession /\ script = InPlace

\* The session has applied every rule to every server block.
RulesDone == pc \in {"keep", "write", "written"} \/ (pc = "apply" /\ k = 0)

\* This session follows one that wrote the file.
FollowsWrite ==
  /\ run > 1
  /\ script = InPlace
  /\ outcomes[run - 1].script = InPlace
  /\ outcomes[run - 1].pc = "written"
  /\ ~outcomes[run - 1].dry_run

(***************************************************************************)
(* C1. Idempotence of the full rule sequence: a session that follows a     *)
(* session that wrote the file, with the same parameters, finds nothing to *)
(* change and leaves the text as it read it (shown on the documents whose  *)
(* braces are balanced).                                                   *)
(***************************************************************************)
C1_Idempotence ==
  (FollowsWrite /\ RulesDone /\ BracesBalanced(text)) => (~changed /\ new_text = text)

(***************************************************************************)
(* C2. NoopSkipped: as long as no rule has reported a change, the session  *)
(* has made no backup and the file on disk is the text it read.            *)
(***************************************************************************)
C2_NoopSkipped ==
  (InSession /\ ~changed) => (backup = NoBackup /\ file = text)

\* C2's case: the rules ran on a matching server block, none changed it, and
\* the session ended keeping the file.
C2_Witness ==
  /\ pc = "keep"
  /\ script = InPlace
  /\ \E i \in 1..Len(blocks) : MatchedOf(text, blocks[i]) # {}
  /\ backup = NoBackup
  /\ file = text

(***************************************************************************)
(* C3. Fail-closed on corruption: a session on a document with one         *)
(* unmatched "{" writes nothing; the file stays the text it read.          *)
(***************************************************************************)
C3_FailClosed ==
  (InPlaceSession /\ OneUnmatchedOpen(text)) => (file = text /\ pc # "written")

(***************************************************************************)
(* C5. Non-destructiveness: whatever the session does to a balanced        *)
(* document, the text outside its domain-matching server blocks stays as   *)
(* it was: before, between and after them, the other server blocks too.    *)
(***************************************************************************)
C5_NonDestructive ==
  (InPlaceSession /\ BracesBalanced(text)) =>
    SameOutside(text, new_text, TargetedSpans(text))

(***************************************************************************)
(* C6. Backup-before-write: in every session, of patch-nginx-in-place.py   *)
(* and of the VPS scripts, when the write step starts the backup holds the *)
(* text the session read, and the file differs from that text only when    *)
(* the backup holds it; a failed backup leaves the file unwritten.         *)
(***************************************************************************)
C6_BackupBeforeWrite ==
  InSession =>
    /\ (pc = "write" /\ ~dry_run) => backup = text
    /\ pc = "vps_write" => backup = text
    /\ file # text => backup = text
    /\ backup = NoBackup => file = text

\* C6's case: a session wrote a changed text over the file.
C6_Witness ==
  /\ pc = "written"
  /\ script = AfterMeMarker
  /\ file # text
  /\ file = new_text
  /\ backup = text

(***************************************************************************)
(* C10. A keyword in a comment is not a header: every span the server      *)
(* scan returns starts at a `server` that begins its line, after optional  *)
(* whitespace.                                                             *)
(***************************************************************************)
C10_CommentNotHeader ==
  InPlaceSession => \A i \in 1..Len(blocks) : LineStarts(text, blocks[i][1]) # {}

(***************************************************************************)
(* What the claims about a single rule speak of.                           *)
(***************************************************************************)

\* The offset after the "}" that closes the first "{" at or after offset p.
BlockEndAt(s, p) ==
  LET o == Min({j \in StructuralOpens(s) : j >= p})
  IN Min({c \in StructuralCloses(s) : c > o /\ DepthAfter(s, c) = DepthAfter(s, o) - 1}) + 1

\* The `location / {` headers of s, at any indentation.
CatchAllHeaders(s) == AnchoredMatches(s, LocationRe(<<"/">>))

\* The `location = /me {` headers of s.
MeExactHeaders(s) == AnchoredMatches(s, MeExactCloneRe)

\* The lines of s.
RECURSIVE LinesOf(_)
LinesOf(s) ==
  IF Find(s, <<NL>>, 0) = -1 THEN <<s>>
  ELSE <<Slice(s, 0, Find(s, <<NL>>, 0))>> \o LinesOf(SliceFrom(s, Find(s, <<NL>>, 0) + 1))

\* The line is a proxy_pass directive: proxy_pass is its first word.
IsProxyPassLine(line) ==
  \E j \in 1..Len(line) : line[j] = "proxy_pass" /\ \A i \in 1..(j - 1) : IsWs(line[i])

(***************************************************************************)
(* C4. Ordering invariant: when _ensure_location_if_missing or             *)
(* ensure_block_before_location_slash inserts its block into a server      *)
(* block that has a catch-all `location / {`, at whatever indentation, the *)
(* inserted block ends before the catch-all header in the output.          *)
(***************************************************************************)
C4_Ordering ==
  (op \in {"ensure", "before"} /\ Len(flags) >= 1 /\ flags[1]
     /\ CatchAllHeaders(texts[1]) # {}) =>
    \A p \in AnchoredMatches(texts[2], param.regex) :
      \A c \in CatchAllHeaders(texts[2]) : BlockEndAt(texts[2], p) <= c

(***************************************************************************)
(* C7. Scenario A: on a text with one `location = /me { ... }` block and   *)
(* no `location ^~ /me/`, the clone rule reports a change and returns the  *)
(* text with one insertion right after the end of that block: blank space, *)
(* the marker comment, and `location ^~ /me/ {` with the body of the       *)
(* original; applied again to the result it changes nothing.               *)
(***************************************************************************)
ScenarioA(s) ==
  /\ Cardinality(MeExactHeaders(s)) = 1
  /\ ~Search(s, MePrefixRe)
  /\ BracesBalanced(s)

ClonedRightAfter(a, b, marker) ==
  LET p     == Min(MeExactHeaders(a))
      e     == BlockEndAt(a, p)
      n     == Len(b) - Len(a)
      ins   == Slice(b, e, e + n)
      h     == Find(ins, <<"location">>, 0)
      clone == MePrefixHeader \o Slice(a, Find(a, <<"{">>, p) + 1, e)
  IN /\ n > 0
     /\ Slice(b, 0, e) = Slice(a, 0, e)
     /\ SliceFrom(b, e + n) = SliceFrom(a, e)
     /\ h # -1
     /\ \A j \in 1..h : IsWs(ins[j]) \/ ins[j] = marker
     /\ h + Len(clone) <= Len(ins)
     /\ Slice(ins, h, h + Len(clone)) = clone
     /\ \A j \in (h + Len(clone) + 1)..Len(ins) : IsWs(ins[j])

C7_ScenarioA ==
  (op \in {"clone /me", "me-proxy clone"} /\ Len(flags) >= 1 /\ ScenarioA(texts[1])) =>
    /\ flags[1]
    /\ ClonedRightAfter(texts[1], texts[2],
                        IF op = "clone /me" THEN MARKER_me_clone ELSE ME_MARKER)
    /\ Len(flags) >= 2 => (~flags[2] /\ texts[3] = texts[2])

\* C7's case: the clone rule of patch-nginx-in-place.py was applied to the
\* one-line block of Scenario A, changed it, and was applied again.
C7_Witness ==
  /\ op = "clone /me"
  /\ Len(flags) = 2
  /\ texts[1] = Server(BetaDomain, MeOneLine \o CatchAll)
  /\ flags[1]
  /\ texts[2] # texts[1]
  /\ texts[3] = texts[2]

(***************************************************************************)
(* C8. Clone fidelity: when a clone rule has cloned a location block, the  *)
(* source block is where it was, unchanged, and the clone has the lines of *)
(* the source, in order: apart from the header line and, in the /api/      *)
(* clones, the proxy_pass directive, each line is the source's line.       *)
(***************************************************************************)
SourceHeader(a) ==
  IF op = "clone /me" THEN Min(MeExactHeaders(a))
  ELSE Find(a, <<"location">>, RFind(a, <<ME_MARKER>>))

CloneFaithful(a, b) ==
  LET p   == SourceHeader(a)
      e   == BlockEndAt(a, p)
      cp  == Find(b, <<"location">>, e)
      src == LinesOf(Slice(a, p, e))
      cl  == LinesOf(Slice(b, cp, BlockEndAt(b, cp)))
  IN /\ Slice(b, 0, e) = Slice(a, 0, e)
     /\ cp # -1
     /\ Len(cl) = Len(src)
     /\ \A i \in 2..Len(src) :
          \/ cl[i] = src[i]
          \/ op # "clone /me" /\ IsProxyPassLine(src[i])

C8_CloneFidelity ==
  (op \in {"clone /me", "after-me-marker clone", "compat-beta clone"}
     /\ Len(flags) >= 1 /\ flags[1]) =>
    CloneFaithful(texts[1], texts[2])

(***************************************************************************)
(* C9. Scenario C: _ensure_location_rate_limit applied to a server block   *)
(* in which every location block it matches already holds a limit_req      *)
(* directive returns changed = false and the server block as it was.       *)
(***************************************************************************)
AlreadyLimited(s) ==
  /\ AnchoredMatches(s, LocationRe(param.regex)) # {}
  /\ \A p \in AnchoredMatches(s, LocationRe(param.regex)) :
       \E j \in (p + 1)..(BlockEndAt(s, p) - 1) : HasLimitReq(s[j + 1])

C9_ScenarioC ==
  \A n \in 1..Len(flags) :
    (op = "rate" /\ AlreadyLimited(texts[n])) => (~flags[n] /\ texts[n + 1] = texts[n])

\* C9's case: the rule was applied to a server block whose matching location
\* block held a limit_req directive from the start.
C9_Witness ==
  /\ op = "rate"
  /\ Len(flags) >= 1
  /\ AlreadyLimited(texts[1])
  /\ ~flags[1]
  /\ texts[2] = texts[1]

(***************************************************************************)
(* C11. AmbiguousMatch: when the clone rule of patch-nginx-in-place.py     *)
(* finds more than one `location = /me` block to clone from, or            *)
(* patch-vps-nginx-api-after-me-marker.py finds its marker more than once, *)
(* the rule does nothing: it returns the text as it was and reports no     *)
(* change, rather than using one of the candidates.                        *)
(***************************************************************************)
MarkerCount(s) == Cardinality({j \in 1..Len(s) : s[j] = ME_MARKER})

AmbiguousSource(s) ==
  \/ op = "clone /me" /\ Cardinality(MeExactHeaders(s)) > 1 /\ ~Search(s, MePrefixRe)
  \/ op = "after-me-marker clone" /\ MarkerCount(s) > 1

C11_AmbiguousMatch ==
  (Len(flags) >= 1 /\ AmbiguousSource(texts[1])) => (~flags[1] /\ texts[2] = texts[1])

(***************************************************************************)
(* C12. NoopSkipped is not a failure: when patch-nginx-in-place.py finds   *)
(* a domain-matching server block in the site file and no rule changes     *)
(* anything (the session ends at "keep"), main ends with exit status 0.    *)
(***************************************************************************)
NothingToDo ==
  /\ script = InPlace
  /\ pc = "keep"
  /\ \E i \in 1..Len(blocks) : MatchedOf(text, blocks[i]) # {}

C12_NoopExitsZero == (NothingToDo /\ exit_code # NoExit) => exit_code = 0

(***************************************************************************)
(* C13. AnchorNotFound is scoped to its target: when the file holds no     *)
(* `location = /me` block to clone (and no `location ^~ /me/`), a run of    *)
(* patch-vps-nginx-me-proxy.py still makes the /internal/ and /api/         *)
(* insertions its beta server blocks are waiting for; when one beta SSL    *)
(* server block lacks the /me/* marker, a run of                           *)
(* patch-vps-nginx-api-compat-beta.py still patches another beta SSL       *)
(* server block that has the marker and no `location ^~ /api/`.            *)
(***************************************************************************)
SpanText(s, i) == Slice(s, _server_blocks(s)[i][1], _server_blocks(s)[i][2])

\* No source for the clone of step 1 of patch-vps-nginx-me-proxy.py.
MeAnchorMissing(s) ==
  ~Search(s, MePrefixRe) /\ find_block_ends_for_location_me(s) = <<>>

\* The beta spans step 2 of patch-vps-nginx-me-proxy.py has something to insert into.
PendingBetaSpans(s) ==
  {i \in 1..Len(_server_blocks(s)) :
     IsBetaBlock(SpanText(s, i)) /\ ChangedOf(MeProxyBetaBlock(SpanText(s, i)))}

\* The beta SSL spans without `location ^~ /api/`, by whether the marker is there.
CompatSpans(s, marked) ==
  {i \in 1..Len(_server_blocks(s)) :
     /\ IsBetaBlock(SpanText(s, i))
     /\ HasListenSsl(SpanText(s, i))
     /\ ~Search(SpanText(s, i), ApiPrefixRe)
     /\ (Find(SpanText(s, i), <<ME_MARKER>>, 0) # -1) = marked}

C13_AnchorScoped ==
  /\ (InSession /\ script = MeProxy /\ MeAnchorMissing(text) /\ PendingBetaSpans(text) # {})
       => (pc # "died" /\ changed /\ PendingBetaSpans(new_text) = {})
  /\ (InSession /\ script = CompatBeta /\ CompatSpans(text, FALSE) # {}
        /\ CompatSpans(text, TRUE) # {})
       => (pc # "died" /\ changed)

(***************************************************************************)
(* C14. Dry-run touches no storage: no step of a run with --dry-run, of    *)
(* patch-nginx-in-place.py or of fix_nginx_beta_moderation_proxy.py,       *)
(* changes the target file, the conf.d directory or the backup; and a real *)
(* run that follows a completed dry run reports the changed flag and the   *)
(* patched text the dry run reported.                                      *)
(***************************************************************************)
DryStepTouchesNothing ==
  (dry_run /\ run' = run) => (file' = file /\ conf_d' = conf_d /\ backup' = backup)

Completed == {"skip", "keep", "written"}

RealAfterDry ==
  /\ run > 1
  /\ ~dry_run
  /\ outcomes[run - 1].dry_run
  /\ outcomes[run - 1].pc \in Completed
  /\ pc \in Completed

SameReport ==
  RealAfterDry => (changed = outcomes[run - 1].changed /\ new_text = outcomes[run - 1].new_text)

C14_DryRunNoStorage == [][DryStepTouchesNothing]_vars /\ []SameReport

\* C14's case: a dry run reported a patch and left the file alone; the real
\* run after it has made the backup and written the same patched text.
C14_Witness ==
  /\ RealAfterDry
  /\ pc = "written"
  /\ changed
  /\ outcomes[run - 1].changed
  /\ backup = text
  /\ file = new_text
  /\ file # text

(***************************************************************************)
(* C15. patch-vps-nginx-me-proxy.py clones every `location = /me` block:   *)
(* after a run on a balanced file that did not abort, every server block   *)
(* of the patched text that holds a `location = /me` block also holds a    *)
(* `location ^~ /me/` block, whether or not another server block had one   *)
(* before the run.                                                         *)
(***************************************************************************)
MeProxySucceeded ==
  /\ script = MeProxy
  /\ pc \in {"keep", "vps_backup", "vps_write", "written"}

EveryMeHasPrefix(s) ==
  \A sp \in TrueServerSpans(s) :
    MeExactHeaders(Slice(s, sp[1], sp[2])) # {} => Search(Slice(s, sp[1], sp[2]), MePrefixRe)

C15_ClonesEveryMe ==
  (MeProxySucceeded /\ BracesBalanced(text)) => EveryMeHasPrefix(new_text)

(***************************************************************************)
(* C16. patch-vps-nginx-internal-block-beta.py: when a server block of a   *)
(* balanced file is the beta SSL server block (server_name                 *)
(* beta.twitchmemes.ru, listen 443 ssl) and has no `location ^~ /internal/`*)
(* block, the run ends with that server block holding a                    *)
(* `location ^~ /internal/` block before its `location /` block.           *)
(***************************************************************************)
\* The true server blocks of s that are beta SSL server blocks.
BetaSslSpans(s) ==
  {sp \in TrueServerSpans(s) :
     IsBetaBlock(Slice(s, sp[1], sp[2])) /\ HasListenSsl(Slice(s, sp[1], sp[2]))}

\* The server block sb holds `location ^~ /internal/` before every `location / {`.
InternalBeforeFallback(sb) ==
  /\ AnchoredMatches(sb, InternalPrefixRe) # {}
  /\ \A c \in CatchAllHeaders(sb) : Min(AnchoredMatches(sb, InternalPrefixRe)) < c

InternalBetaDone ==
  /\ script = InternalBeta
  /\ pc \in {"vps_backup", "vps_write", "written", "keep", "died"}

\* The run had one beta SSL server block to patch.
OneBetaSslToPatch(s) ==
  /\ BracesBalanced(s)
  /\ Cardinality(BetaSslSpans(s)) = 1
  /\ \A sp \in BetaSslSpans(s) : ~Search(Slice(s, sp[1], sp[2]), InternalPrefixRe)

C16_InternalInsideBetaSsl ==
  (InternalBetaDone /\ OneBetaSslToPatch(text)) =>
    /\ changed
    /\ Cardinality(BetaSslSpans(new_text)) = 1
    /\ \A sp \in BetaSslSpans(new_text) : InternalBeforeFallback(Slice(new_text, sp[1], sp[2]))

(***************************************************************************)
(* C17. The standalone VPS scripts are idempotent: a run of                *)
(* patch-vps-nginx-me-proxy.py, patch-vps-nginx-api-after-me-marker.py,    *)
(* patch-vps-nginx-api-compat-beta.py or                                   *)
(* patch-vps-nginx-internal-block-beta.py that directly follows a          *)
(* completed run of the same script ends in NOOP: nothing changed, the     *)
(* text as read, no backup and no write.                                   *)
(***************************************************************************)
VpsScripts == {MeProxy, AfterMeMarker, CompatBeta, InternalBeta}

FollowsCompletedSame ==
  /\ run > 1
  /\ InSession
  /\ script \in VpsScripts
  /\ outcomes[run - 1].script = script
  /\ outcomes[run - 1].pc \in {"keep", "written"}

C17_VpsIdempotent ==
  FollowsCompletedSame =>
    (pc = "keep" /\ ~changed /\ new_text = text /\ file = text /\ backup = NoBackup)

(***************************************************************************)
(* C18. Insert-only patching: when the rules of patch-nginx-in-place.py    *)
(* are done with the file, the text the session read can be got back from  *)
(* the patched text by deleting lexemes only: every lexeme of the original *)
(* is still there, in the original order.                                  *)
(***************************************************************************)
\* The least offset of b after which a[lo..hi] has been found in b, in order,
\* looking from offset from on; -1 when b does not hold it.
RECURSIVE EmbedEnd(_, _, _, _, _)
EmbedEnd(a, lo, hi, b, from) ==
  IF from = -1 \/ lo > hi THEN from
  ELSE IF lo = hi
    THEN LET js == {j \in (from + 1)..Len(b) : b[j] = a[lo]}
         IN IF js = {} THEN -1 ELSE Min(js)
  ELSE EmbedEnd(a, ((lo + hi) \div 2) + 1, hi, b, EmbedEnd(a, lo, (lo + hi) \div 2, b, from))

\* a is b with lexemes deleted.
IsSubsequence(a, b) == EmbedEnd(a, 1, Len(a), b, 0) # -1

C18_InsertOnly ==
  (script = InPlace /\ pc \in {"keep", "write"}) => IsSubsequence(text, new_text)

\* C18's case: the rules changed the file, the uploads block among them.
C18_Witness ==
  /\ script = InPlace
  /\ pc = "write"
  /\ changed
  /\ Len(new_text) > Len(text)
  /\ AnchoredMatches(text, UploadsRe) # {}
  /\ IsSubsequence(text, new_text)

(***************************************************************************)
(* C19. /internal/ is never exposed: when patch_nginx_site_file has run    *)
(* its rules on a domain-matching server block, the block holds a          *)
(* `location ^~ /internal/` block that returns 404, in particular when     *)
(* the block is reported as patched.                                       *)
(***************************************************************************)
\* The rules have all run on the span blocks[k]; line 655 is next.
BlockProcessed ==
  /\ script = InPlace
  /\ pc = "apply"
  /\ rule > 0
  /\ rule > Len(BlockRules(MatchedOf(new_text, blocks[k])))

\* sb holds a closed `location ^~ /internal/ {` block with `return 404;` in it.
BlocksInternal(sb) ==
  \E p \in AnchoredMatches(sb, InternalPrefixRe) :
    /\ BlockEndAt(sb, p) # -1
    /\ \E j \in (p + 1)..BlockEndAt(sb, p) : sb[j] = "return 404;"

C19_InternalBlocked == BlockProcessed => BlocksInternal(patched)

(***************************************************************************)
(* C20. Directive augmentation stays inside its block: when                *)
(* _ensure_location_rate_limit reports a change on a server block, every   *)
(* location block it matches holds a limit_req directive between its "{"   *)
(* and its "}", and every limit_req line the rule added lies between the   *)
(* braces of a matching location block; one-line blocks included.          *)
(***************************************************************************)
\* The offsets strictly between the braces of the block whose header is at p.
InsideBlock(s, p) ==
  (Min({j \in StructuralOpens(s) : j >= p}) + 1)..(BlockEndAt(s, p) - 2)

RateLimitInside(s) ==
  /\ \A p \in AnchoredMatches(s, LocationRe(param.regex)) :
       \E j \in InsideBlock(s, p) : HasLimitReq(s[j + 1])
  /\ \A j \in 0..(Len(s) - 1) :
       s[j + 1] = LimitReqLine(param.zone, param.burst) =>
         \E p \in AnchoredMatches(s, LocationRe(param.regex)) : j \in InsideBlock(s, p)

C20_RateLimitInside ==
  (op = "rate" /\ Len(flags) >= 1 /\ flags[1]) => RateLimitInside(texts[2])

(***************************************************************************)
(* C21. Augmentation never uses stale offsets: one call of                 *)
(* _ensure_location_rate_limit on a server block with several location     *)
(* blocks that match the header pattern leaves every matching block with a *)
(* limit_req directive between its braces, and adds limit_req to no block  *)
(* that does not match.                                                    *)
(***************************************************************************)
SeveralMatches(s) == Cardinality(AnchoredMatches(s, LocationRe(param.regex))) > 1

C21_NoStaleOffsets ==
  (op = "rate" /\ Len(flags) >= 1 /\ SeveralMatches(texts[1])) => RateLimitInside(texts[2])

(***************************************************************************)
(* C22. Right-to-left application keeps spans valid: whenever              *)
(* patch_nginx_site_file is about to take the span blocks[k], computed on  *)
(* the text it read, the text up to the end of that span is still what it  *)
(* read; and in the clone loop of patch-vps-nginx-me-proxy.py every        *)
(* `location = /me` block is, when its turn comes, still at the offsets    *)
(* found before the loop.                                                  *)
(***************************************************************************)
\* The text of the clone loop when the m-th block is about to be processed:
\* the blocks after it have been handled.
BeforeClone(s, bl, m) == CloneAfterEach(s, SubSeq(bl, m + 1, Len(bl)), Len(bl) - m)

MeCloneSpansValid(s) ==
  \A m \in 1..Len(find_block_ends_for_location_me(s)) :
    LET bl == find_block_ends_for_location_me(s)
    IN Slice(BeforeClone(s, bl, m), 0, bl[m][2]) = Slice(s, 0, bl[m][2])

C22_SpansStayValid ==
  /\ (script = InPlace /\ pc = "apply" /\ k > 0) =>
       Slice(new_text, 0, blocks[k][2]) = Slice(text, 0, blocks[k][2])
  /\ (script = MeProxy /\ InSession /\ ~Search(text, MePrefixRe)) => MeCloneSpansValid(text)

\* C22's case: a later server block has been patched and put back, and an
\* earlier domain-matching span is about to be processed.
C22_Witness ==
  /\ script = InPlace
  /\ pc = "apply"
  /\ k > 0
  /\ rule = 0
  /\ new_text # text
  /\ MatchedOf(new_text, blocks[k]) # {}
  /\ Slice(new_text, blocks[k][1], blocks[k][2]) = Slice(text, blocks[k][1], blocks[k][2])

(***************************************************************************)
(* C23. Scanner contract: the spans _server_blocks (and server_blocks of   *)
(* patch-vps-nginx-api-compat-beta.py, the same loop) reports for the text *)
(* of a session are non-empty, strictly increasing and pairwise disjoint;  *)
(* each starts at a `server {` header and ends one past the "}" that       *)
(* closes the header's "{", so that the braces inside the span balance.    *)
(***************************************************************************)
\* The braces of s as the scanner counts them (every "{" and "}", comments
\* included): no "}" without an open "{", and as many "}" as "{".
RawBalanced(s) ==
  /\ \A j \in 1..Len(s) :
       Cardinality({h \in 1..j : s[h] = "}"}) <= Cardinality({h \in 1..j : s[h] = "{"})
  /\ Cardinality({h \in 1..Len(s) : s[h] = "}"}) = Cardinality({h \in 1..Len(s) : s[h] = "{"})

\* No proper prefix of s that holds a "{" is balanced: s ends at the first
\* "}" that returns the depth to the level before its first "{".
EndsAtMatchingClose(s) ==
  /\ RawBalanced(s)
  /\ \A j \in 1..(Len(s) - 1) :
       (\E h \in 1..j : s[h] = "{") => ~RawBalanced(SubSeq(s, 1, j))

SpansOrdered(bl) ==
  /\ \A n \in 1..Len(bl) : bl[n][1] < bl[n][2]
  /\ \A n \in 2..Len(bl) : bl[n - 1][2] <= bl[n][1]

C23_ScannerContract ==
  (InSession /\ script \in {InPlace, CompatBeta}) =>
    /\ SpansOrdered(_server_blocks(text))
    /\ \A n \in 1..Len(_server_blocks(text)) :
         /\ MatchAt(text, _server_blocks(text)[n][1], ServerHeader) # -1
         /\ EndsAtMatchingClose(SpanText(text, n))

(***************************************************************************)
(* C24. Backups preserve every original: each site file the batch has      *)
(* written has a backup, under its name, that holds the content the file   *)
(* had before the batch; the backup of one file is not replaced by the     *)
(* backup of another file written in the same batch.                       *)
(***************************************************************************)
\* What the path held when the batch started.
ContentBefore(path) == before[Resolve(before, path)].content

C24_BackupsPreserved ==
  \A path \in written :
    \E b \in DOMAIN backup_dir :
      b.name = path.name /\ backup_dir[b] = ContentBefore(path)

(***************************************************************************)
(* C25. No duplicate managed locations: whatever sessions of the five      *)
(* patch scripts have run on the file (no document of the model starts     *)
(* with a repeated location header), every server block of the file holds  *)
(* at most one `location ^~ /api/` header, at most one `location ^~ /me/`  *)
(* header and at most one `location ^~ /internal/` header (shown on the    *)
(* documents whose braces are balanced).                                   *)
(***************************************************************************)
ManagedPrefixes == {ApiPrefixRe, MePrefixRe, InternalPrefixRe}

DuplicateHeader(server_block) ==
  \E pat \in ManagedPrefixes : Cardinality(AnchoredMatches(server_block, pat)) > 1

C25_NoDuplicateLocations ==
  BracesBalanced(file) =>
    \A sp \in TrueServerSpans(file) : ~DuplicateHeader(Slice(file, sp[1], sp[2]))

(***************************************************************************)
(* C26. The changed flag is exact: every rule patch_nginx_site_file calls  *)
(* on a server block returns changed = TRUE exactly when the text it       *)
(* returns differs from the text it received; the session's changed flag   *)
(* is TRUE exactly when the patched text differs from the text read; and   *)
(* the session makes the backup and the write exactly in that case.        *)
(***************************************************************************)
\* The rule the session is about to call on the server block in hand.
RuleInHand == BlockRules(MatchedOf(new_text, blocks[k]))[rule]

RulePending ==
  /\ script = InPlace
  /\ pc = "apply"
  /\ rule > 0
  /\ rule <= Len(BlockRules(MatchedOf(new_text, blocks[k])))

C26_ChangedExact ==
  /\ RulePending =>
       (ChangedOf(ApplyRule(patched, RuleInHand)) <=> (TextOf(ApplyRule(patched, RuleInHand)) # patched))
  /\ InPlaceSession => (changed <=> (new_text # text))
  /\ (InPlaceSession /\ pc \in {"skip", "keep"}) =>
       (new_text = text /\ file = text /\ backup = NoBackup)
  /\ (InPlaceSession /\ pc = "written") =>
       (new_text # text /\ (dry_run \/ (file = new_text /\ backup = text)))

\* C26's case: a session whose rules changed a server block has made the
\* backup of the text it read and written the patched text.
C26_Witness ==
  /\ InPlaceSession
  /\ pc = "written"
  /\ ~dry_run
  /\ changed
  /\ new_text # text
  /\ file = new_text
  /\ backup = text
====
